---- MODULE Spec2Model ----
(***************************************************************************)
(* Model of the multi-tool decompilation pipeline of                      *)
(* src/decompiler/standalone_decompile.py, with the parts of              *)
(* llm_recovery.py and bytecode_utils.py that it calls.                    *)
(*                                                                         *)
(* A text (a Python str) is the sequence of its lines; the str "" is the   *)
(* empty sequence.  A line is a record [k, d]: k is what the line is and d *)
(* its indentation level (0 = column 0).  The kinds:                       *)
(*   "stmt"     a simple statement other than pass          x = 1          *)
(*   "pass"     a bare pass statement                       pass           *)
(*   "passtodo" pass followed by a TODO comment         pass  # TODO: ...  *)
(*   "def"      a function header                           def f(...):    *)
(*   "class"    a class header                              class C(...):  *)
(*   "warn"     the backend's incompleteness marker                        *)
(*                                 # WARNING: Decompyle incomplete         *)
(*   "comment"  any other comment line                                     *)
(*   "blank"    an empty line                                              *)
(*   "bad"      a line no Python parser accepts             def f(:        *)
(* All functions of a text are named f and all classes C.                  *)
(***************************************************************************)
EXTENDS Integers, Sequences, FiniteSets, TLC

L(k, d) == [k |-> k, d |-> d]

\* The value None of an optional str (a DecompileResult's error).
None == "None"

\* A missing or empty text (None and "" are both falsy in the code).
NoText == << >>

MAX_INCOMPLETE == 999

-----------------------------------------------------------------------------
(* bytecode_utils.validate_syntax: ast.parse over the line structure.      *)

CommentKinds == {"warn", "comment", "blank"}
HeaderKinds == {"def", "class"}

RECURSIVE PopTo(_, _)
PopTo(stack, d) ==
    IF Len(stack) > 1 /\ Head(stack) > d THEN PopTo(Tail(stack), d) ELSE stack

\* stack: the indentation levels of the open blocks, innermost first;
\* need: the previous statement was a header, so a deeper line must follow.
RECURSIVE Parses(_, _, _, _)
Parses(lines, i, stack, need) ==
    IF i > Len(lines) THEN ~need
    ELSE LET l == lines[i] IN
         IF l.k \in CommentKinds THEN Parses(lines, i + 1, stack, need)
         ELSE IF l.k = "bad" THEN FALSE
         ELSE IF need
              THEN /\ l.d > Head(stack)
                   /\ Parses(lines, i + 1, <<l.d>> \o stack, l.k \in HeaderKinds)
              ELSE LET st == PopTo(stack, l.d) IN
                   /\ Head(st) = l.d
                   /\ Parses(lines, i + 1, st, l.k \in HeaderKinds)

validate_syntax(source) == Parses(source, 1, <<0>>, FALSE)

-----------------------------------------------------------------------------
(* The disassembly oracle.  standalone_decompile.py holds it as the str    *)
(* pycdas printed (type "str"); a record tells what the regular            *)
(* expressions of the pipeline find in it:                                 *)
(*   nonempty  the str is not ""                                           *)
(*   objs      the names n with a line "Object Name: n"                    *)
(*   qual      some "Qualified Name: C.<member>" occurs                    *)
(*   methods   the number of lines holding both "Object Name: <m>" and     *)
(*             "Qualified Name: C.<m>"                                     *)

MaxMethods == 1

Oracle(ne, objs, qual, methods) ==
    [type |-> "str", nonempty |-> ne, objs |-> objs, qual |-> qual, methods |-> methods]

EmptyOracle == Oracle(FALSE, {}, FALSE, 0)

Oracles ==
    {EmptyOracle} \cup
    { o \in { Oracle(TRUE, objs, qual, m) :
                objs \in SUBSET {"f", "C"}, qual \in BOOLEAN, m \in 0..MaxMethods } :
        o.methods > 0 => o.qual }

CountKind(source, kind) == Cardinality({i \in 1..Len(source) : source[i].k = kind})

HasMarker(source) == \E i \in 1..Len(source) : source[i].k = "warn"

-----------------------------------------------------------------------------
(* bytecode_utils.is_truly_empty_function begins with                      *)
(* bc_info.get_code(func_name): handed the disassembly str instead of a    *)
(* BytecodeInfo it raises AttributeError before it decides anything.       *)

is_truly_empty_function_raises(bc_info) == bc_info.type = "str"

\* The header lines the two regular expressions of count_false_passes
\* match: a def (class) header, a pass line right after it, and no
\* marker on the line after that.  \s* and \s+ in the expressions run
\* over blank lines: "\n\s+pass" asks for an indented pass on the next
\* line, or for a pass at any column below blank lines.
RECURSIVE NextNonBlank(_, _)
NextNonBlank(source, i) ==
    IF i + 1 > Len(source) \/ source[i + 1].k # "blank" THEN i + 1
    ELSE NextNonBlank(source, i + 1)

PassOnly(source, kind) ==
    { i \in 1..Len(source) :
        /\ source[i].k = kind
        /\ LET j == NextNonBlank(source, i) IN
           /\ j <= Len(source)
           /\ source[j].k = "pass"
           /\ (source[j].d >= 1 \/ j > i + 1)
           /\ LET m == NextNonBlank(source, j) IN
              ~(m <= Len(source) /\ source[m].k = "warn") }

\* The first loop calls is_truly_empty_function for every match.
count_false_passes_raises(source, bytecode) ==
    /\ PassOnly(source, "def") # {}
    /\ is_truly_empty_function_raises(bytecode)

count_false_passes(source, bytecode) ==
    IF bytecode.qual THEN Cardinality(PassOnly(source, "class")) ELSE 0

-----------------------------------------------------------------------------
(* fill_incomplete_sections and the two stub builders.                     *)

_extract_function_stub(bytecode) ==
    IF "f" \in bytecode.objs
    THEN <<L("def", 0), L("passtodo", 2)>>
    ELSE NoText

RECURSIVE MethodStubs(_)
MethodStubs(n) ==
    IF n = 0 THEN << >>
    ELSE IF n = 1 THEN <<L("def", 1), L("passtodo", 2)>>
    ELSE <<L("def", 1), L("passtodo", 2), L("blank", 0)>> \o MethodStubs(n - 1)

_extract_class_stub(bytecode) ==
    IF "C" \in bytecode.objs
    THEN <<L("class", 0)>> \o
         (IF bytecode.methods = 0 THEN <<L("pass", 1)>> ELSE MethodStubs(bytecode.methods))
    ELSE NoText

\* " " * indent + ln for every line that is not blank.
Reindent(text, indent) ==
    [i \in 1..Len(text) |->
        IF text[i].k = "blank" THEN text[i] ELSE L(text[i].k, text[i].d + indent)]

\* The index of the first marker line at or after i (Len + 1 if none).
RECURSIVE FirstMarker(_, _)
FirstMarker(lines, i) ==
    IF i > Len(lines) \/ lines[i].k = "warn" THEN i ELSE FirstMarker(lines, i + 1)

RECURSIVE FillFrom(_, _, _)
FillFrom(lines, i, bytecode) ==
    IF i > Len(lines) THEN << >>
    ELSE LET line == lines[i]
             has_incomplete ==
                 \E j \in 1..3 : i + j <= Len(lines) /\ lines[i + j].k = "warn"
             reconstructed ==
                 IF line.k = "def" THEN _extract_function_stub(bytecode)
                 ELSE IF line.k = "class" THEN _extract_class_stub(bytecode)
                 ELSE NoText
         IN IF has_incomplete /\ line.k \in HeaderKinds /\ reconstructed # NoText
            THEN Reindent(reconstructed, line.d)
                   \o FillFrom(lines, FirstMarker(lines, i) + 1, bytecode)
            ELSE <<line>> \o FillFrom(lines, i + 1, bytecode)

fill_incomplete_sections(source, bytecode) ==
    IF ~HasMarker(source) THEN source ELSE FillFrom(source, 1, bytecode)

-----------------------------------------------------------------------------
(* DecompileResult and the three backends.                                 *)

DecompileResult(source, tool, incomplete_count, error) ==
    [source |-> source, tool |-> tool, incomplete_count |-> incomplete_count,
     error |-> error]

is_complete(r) == r.incomplete_count = 0 /\ r.error = None

\* not text.strip()
IsBlank(text) == \A i \in 1..Len(text) : text[i].k = "blank"

\* A run of decompyle3 is [stdout, stderr, code, unsupported]: what
\* run_command returned, and whether "Unsupported Python version" occurs in
\* stdout + stderr.
decompile_with_decompyle3(run) ==
    IF run.unsupported
    THEN DecompileResult(NoText, <<"decompyle3">>, MAX_INCOMPLETE, "Unsupported Python version")
    ELSE IF run.code # 0 \/ IsBlank(run.stdout)
    THEN DecompileResult(NoText, <<"decompyle3">>, MAX_INCOMPLETE,
                         IF run.stderr # "" THEN run.stderr ELSE "Empty output")
    ELSE IF ~(\E i \in 1..Len(run.stdout) :
                 run.stdout[i].k # "blank" /\
                 ~(run.stdout[i].k \in {"warn", "comment"} /\ run.stdout[i].d = 0))
    THEN DecompileResult(NoText, <<"decompyle3">>, MAX_INCOMPLETE, "Only comments in output")
    ELSE DecompileResult(run.stdout, <<"decompyle3">>, 0, None)

\* A run of pycdc is [built, stdout, stderr]; its exit code is dropped.
decompile_with_pycdc(run) ==
    IF ~run.built
    THEN DecompileResult(NoText, <<"pycdc">>, MAX_INCOMPLETE, "pycdc not built")
    ELSE IF IsBlank(run.stdout)
    THEN DecompileResult(NoText, <<"pycdc">>, MAX_INCOMPLETE,
                         IF run.stderr # "" THEN run.stderr ELSE "Empty output")
    ELSE LET incomplete_count == CountKind(run.stdout, "warn") IN
         DecompileResult(run.stdout, <<"pycdc">>,
                         IF validate_syntax(run.stdout) THEN incomplete_count
                         ELSE IF incomplete_count > 1 THEN incomplete_count ELSE 1,
                         None)

\* A run of pylingual is [installed, raised, source]: HAS_PYLINGUAL,
\* whether pylingual_decompile raised (the message, "" if it did not), and
\* the source it returned.
decompile_with_pylingual(run) ==
    IF ~run.installed
    THEN DecompileResult(NoText, <<"pylingual">>, MAX_INCOMPLETE, "pylingual not installed")
    ELSE IF run.raised # ""
    THEN DecompileResult(NoText, <<"pylingual">>, MAX_INCOMPLETE, run.raised)
    ELSE IF IsBlank(run.source)
    THEN DecompileResult(NoText, <<"pylingual">>, MAX_INCOMPLETE, "Empty output")
    ELSE DecompileResult(run.source, <<"pylingual">>,
                         CountKind(run.source, "warn") + CountKind(run.source, "passtodo"),
                         None)

-----------------------------------------------------------------------------
(* _count_incomplete and the Repair Pass.                                  *)

_count_incomplete_raises(result, bytecode) ==
    /\ result.source # NoText
    /\ bytecode.nonempty
    /\ count_false_passes_raises(result.source, bytecode)

_count_incomplete(result, bytecode) ==
    IF result.source = NoText THEN MAX_INCOMPLETE
    ELSE LET count == result.incomplete_count +
                      (IF bytecode.nonempty
                       THEN count_false_passes(result.source, bytecode) ELSE 0)
         IN IF ~validate_syntax(result.source) /\ count < 1 THEN 1 ELSE count

\* A call of the Repair Pass or of the LLM Recovery Pass is [raised, result].
Returned(result) == [raised |-> FALSE, result |-> result]

\* What a call that raised leaves in the place of an outcome.
NoResult == DecompileResult(NoText, << >>, MAX_INCOMPLETE, "raised")

Raised == [raised |-> TRUE, result |-> NoResult]

\* Lines 346-350, with filled the text fill_incomplete_sections returned.
ImprovedFrom(result, bytecode, filled) ==
    IF \/ _count_incomplete_raises(
              DecompileResult(filled, Append(result.tool, "bytecode"), 0, None), bytecode)
       \/ _count_incomplete_raises(result, bytecode)
    THEN Raised
    ELSE LET new_count == _count_incomplete(
                 DecompileResult(filled, Append(result.tool, "bytecode"), 0, None),
                 bytecode)
         IN IF new_count < _count_incomplete(result, bytecode)
            THEN Returned(DecompileResult(filled, Append(result.tool, "bytecode"),
                                          new_count, None))
            ELSE Returned(result)

_try_improve_with_bytecode(result, bytecode) ==
    IF ~bytecode.nonempty \/ result.source = NoText THEN Returned(result)
    ELSE ImprovedFrom(result, bytecode, fill_incomplete_sections(result.source, bytecode))

-----------------------------------------------------------------------------
(* llm_recovery.py.  An agent reply is the code a response carries (the   *)
(* fenced block, or the lines from the first def/class on); NoText when    *)
(* the agent timed out, failed, or answered without code.  replies is     *)
(* [fix, full, func]: the agent's reply to each of the prompts             *)
(* SYNTAX_FIX_PROMPT, FULL_RECOVERY_PROMPT and RECOVERY_PROMPT.            *)

Max(S) == CHOOSE x \in S : \A y \in S : y <= x
Min(S) == CHOOSE x \in S : \A y \in S : x <= y

\* textwrap.dedent: drop the margin common to all lines that are not blank.
dedent(code) ==
    LET ds == {code[i].d : i \in {j \in 1..Len(code) : code[j].k # "blank"}}
        margin == IF ds = {} THEN 0 ELSE Min(ds)
    IN [i \in 1..Len(code) |->
          IF code[i].k = "blank" THEN code[i] ELSE L(code[i].k, code[i].d - margin)]

\* indent_code: the same shift as the Repair Pass applies to its stubs.
indent_code(code, spaces) == Reindent(code, spaces)

extract_code_from_response(response) ==
    IF response = NoText THEN NoText
    ELSE IF validate_syntax(response) THEN response
    ELSE IF validate_syntax(dedent(response)) THEN dedent(response)
    ELSE NoText

\* Called on a source that does not parse.
fix_syntax_errors(reply) ==
    LET code == extract_code_from_response(reply) IN
    IF code # NoText /\ validate_syntax(code) THEN code ELSE NoText

recover_full_file(reply) == extract_code_from_response(reply)

\* The statements of the block a header at line i opens.
Body(source, i) ==
    LET stmts == {j \in 1..Len(source) : source[j].k \notin CommentKinds} IN
    { j \in stmts :
        /\ j > i
        /\ \A m \in stmts : (i < m /\ m <= j) => source[m].d > source[i].d }

\* The def (class) nodes whose body is a single ast.Pass.
AstPassOnly(source, kind) ==
    { i \in 1..Len(source) :
        /\ source[i].k = kind
        /\ Cardinality(Body(source, i)) = 1
        /\ \A j \in Body(source, i) : source[j].k \in {"pass", "passtodo"} }

\* is_truly_empty_class reads bc_info.code_objects: AttributeError on a str.
is_truly_empty_class_raises(bc_info) == bc_info.type = "str"

\* check_function evaluates
\*   is_empty = not bytecode or is_truly_empty_function(bytecode, node.name)
\* for every pass-only function, whether or not a marker follows it.
find_incomplete_functions_raises(source, bytecode) ==
    /\ validate_syntax(source)
    /\ AstPassOnly(source, "def") # {}
    /\ bytecode.nonempty
    /\ is_truly_empty_function_raises(bytecode)

\* The located functions, as the lines of their headers.  Where this
\* returns, the oracle is "" and is_empty is True.
find_incomplete_functions(source, bytecode) ==
    IF ~validate_syntax(source) THEN {}
    ELSE { i \in AstPassOnly(source, "def") :
             LET end_line == Max(Body(source, i)) IN
             \E j \in 1..3 : end_line + j <= Len(source) /\ source[end_line + j].k = "warn" }

find_incomplete_classes_raises(source, bytecode) ==
    /\ validate_syntax(source)
    /\ AstPassOnly(source, "class") # {}
    /\ is_truly_empty_class_raises(bytecode)

\* Where this returns, the source has no pass-only class.
find_incomplete_classes(source, bytecode) == {}

\* bytecode_utils.find_warning_end_index, on 0-based indices as in the code.
RECURSIVE find_warning_end_index(_, _)
find_warning_end_index(lines, end_idx) ==
    IF end_idx >= Len(lines) THEN end_idx
    ELSE LET line == lines[end_idx + 1] IN
         IF line.k = "warn" THEN end_idx + 1
         ELSE IF line.k \notin {"blank", "comment"} THEN end_idx
         ELSE find_warning_end_index(lines, end_idx + 1)

\* result_lines[start_idx:end_idx] = recovered.split("\n")
\* (a slice clamps its bounds to the list, and its end to its start)
SpliceLines(lines, start_idx, end_idx, recovered) ==
    LET s == IF start_idx > Len(lines) THEN Len(lines) ELSE start_idx
        e == IF end_idx > Len(lines) THEN Len(lines) ELSE end_idx
    IN SubSeq(lines, 1, s) \o recovered \o
       SubSeq(lines, (IF e >= s THEN e ELSE s) + 1, Len(lines))

extract_bytecode_for_function(bytecode) == "f" \in bytecode.objs

recover_function(indent, reply) ==
    LET code == extract_code_from_response(reply)
        shifted == IF indent > 0 THEN indent_code(dedent(code), indent) ELSE dedent(code)
    IN IF code = NoText THEN NoText
       ELSE IF validate_syntax(shifted) THEN shifted ELSE NoText

\* recover_class treats the agent's reply as recover_function does.
recover_class(indent, reply) ==
    LET code == extract_code_from_response(reply)
        shifted == IF indent > 0 THEN indent_code(dedent(code), indent) ELSE dedent(code)
    IN IF code = NoText THEN NoText
       ELSE IF validate_syntax(shifted) THEN shifted ELSE NoText

\* The loop over sorted(incomplete_funcs, key=-lineno).  st is
\* [lines, count]: result_lines and recovered_count.
RECURSIVE RecoverFunctions(_, _, _, _, _)
RecoverFunctions(source, funcs, st, bytecode, replies) ==
    IF funcs = {} THEN st
    ELSE LET lineno == Max(funcs)
             rest == funcs \ {lineno}
         IN IF ~extract_bytecode_for_function(bytecode)
            THEN RecoverFunctions(source, rest, st, bytecode, replies)
            ELSE LET recovered == recover_function(source[lineno].d, replies.func)
                     end_idx == find_warning_end_index(st.lines, Max(Body(source, lineno)))
                     st2 == IF recovered = NoText THEN st
                            ELSE [lines |-> SpliceLines(st.lines, lineno - 1, end_idx, recovered),
                                  count |-> st.count + 1]
                 IN RecoverFunctions(source, rest, st2, bytecode, replies)

\* is_incomplete calls is_truly_empty_function / is_truly_empty_class for
\* every pass-only def or class it walks over.
strip_leftover_warnings_raises(source, bytecode) ==
    /\ HasMarker(source)
    /\ validate_syntax(source)
    /\ \/ AstPassOnly(source, "def") # {} /\ is_truly_empty_function_raises(bytecode)
       \/ AstPassOnly(source, "class") # {} /\ is_truly_empty_class_raises(bytecode)

\* Where this returns past the walk, no def or class is pass-only.
strip_leftover_warnings(source, bytecode) ==
    IF ~HasMarker(source) \/ ~validate_syntax(source) THEN source
    ELSE SelectSeq(source, LAMBDA l : l.k # "warn")

Recovered(source, count) == [raised |-> FALSE, source |-> source, count |-> count]

RecoveryRaised == [raised |-> TRUE, source |-> NoText, count |-> 0]

\* Lines 603-610, with st the result_lines and recovered_count the loops left.
StripAndValidate(source, bytecode, st) ==
    IF strip_leftover_warnings_raises(st.lines, bytecode) THEN RecoveryRaised
    ELSE LET result == strip_leftover_warnings(st.lines, bytecode) IN
         IF ~validate_syntax(result) THEN Recovered(source, 0)
         ELSE Recovered(result, st.count)

\* Lines 557-601, with the items the two finders located.
RecoverLocated(source, working_source, recovered_count, bytecode, replies, incomplete_funcs, incomplete_classes) ==
    IF incomplete_funcs = {} /\ incomplete_classes = {} /\ HasMarker(working_source)
    THEN LET recovered == recover_full_file(replies.full) IN
         IF recovered # NoText /\ validate_syntax(recovered) /\ ~HasMarker(recovered)
         THEN Recovered(recovered, recovered_count + 1)
         ELSE Recovered(working_source, recovered_count)
    ELSE IF incomplete_funcs = {} /\ incomplete_classes = {}
    THEN Recovered(working_source, recovered_count)
    ELSE StripAndValidate(source, bytecode,
                          RecoverFunctions(working_source, incomplete_funcs,
                                           [lines |-> working_source,
                                            count |-> recovered_count],
                                           bytecode, replies))

\* recover_incomplete_file from "Find incomplete items" on: source is the
\* text the function was given, working_source the text that parses.
RecoverItems(source, working_source, recovered_count, bytecode, replies) ==
    IF \/ find_incomplete_functions_raises(working_source, bytecode)
       \/ find_incomplete_classes_raises(working_source, bytecode)
    THEN RecoveryRaised
    ELSE RecoverLocated(source, working_source, recovered_count, bytecode, replies,
                        find_incomplete_functions(working_source, bytecode),
                        find_incomplete_classes(working_source, bytecode))

\* RecoverUnparsable committing the agent's whole-file reply as it came.
RecoverUnparsable_Unvalidated(source, bytecode, replies, fixed) ==
    IF fixed # NoText
    THEN RecoverItems(source, fixed, 1, bytecode, replies)
    ELSE IF replies.full # NoText THEN Recovered(replies.full, 1)
    ELSE Recovered(source, 0)

\* Lines 540-551, with fixed what fix_syntax_errors returned.
RecoverUnparsable(source, bytecode, replies, fixed) ==
    IF fixed # NoText
    THEN RecoverItems(source, fixed, 1, bytecode, replies)
    ELSE LET recovered == recover_full_file(replies.full) IN
         IF recovered # NoText /\ validate_syntax(recovered)
         THEN Recovered(recovered, 1)
         ELSE Recovered(source, 0)

recover_incomplete_file(source, bytecode, replies) ==
    IF validate_syntax(source)
    THEN RecoverItems(source, source, 0, bytecode, replies)
    ELSE RecoverUnparsable(source, bytecode, replies, fix_syntax_errors(replies.fix))

-----------------------------------------------------------------------------
(* The LLM Recovery Pass as the pipeline calls it (use_both=False).        *)
(* env is [use_llm, has_llm]: the caller's flag and HAS_LLM_RECOVERY, the  *)
(* outcome of the guarded import of llm_recovery.                          *)

LlmEnabled(env) == env.use_llm /\ env.has_llm

\* Lines 359-362, with rec what recover_incomplete_file returned.
LlmRecoveredFrom(result, bytecode, rec) ==
    IF rec.raised THEN Raised
    ELSE IF rec.count > 0
    THEN IF _count_incomplete_raises(DecompileResult(rec.source, << >>, 0, None), bytecode)
         THEN Raised
         ELSE Returned(DecompileResult(
                  rec.source, Append(result.tool, "llm"),
                  _count_incomplete(DecompileResult(rec.source, << >>, 0, None), bytecode),
                  None))
    ELSE Returned(result)

_try_llm_recovery(result, bytecode, env, replies) ==
    IF ~LlmEnabled(env) \/ result.source = NoText \/ ~bytecode.nonempty
    THEN Returned(result)
    ELSE LlmRecoveredFrom(result, bytecode,
                          recover_incomplete_file(result.source, bytecode, replies))

-----------------------------------------------------------------------------
(* decompile_file.  inp holds what the collaborators answer for one        *)
(* artifact: [d3, cdc, pyl] the runs of the three backends, bc the oracle  *)
(* pycdas prints, replies the agent's replies.  A run of decompile_file is *)
(* [raised, result, trace]: whether an exception left it, the outcome it   *)
(* returned, and the stages it invoked, in order (the backends, "repair" *)
(* for the Repair Pass, "llm" for the LLM Recovery Pass), each with the    *)
(* outcome the stage gave (trace[i].raised: the stage raised).             *)

Stage(name, result) == [stage |-> name, raised |-> FALSE, result |-> result]

Return(result, trace) == [raised |-> FALSE, result |-> result, trace |-> trace]

\* An exception leaves decompile_file: out of the stage called name, or
\* out of _count_incomplete where the best result is chosen ("select").
Raise(name, trace) ==
    [raised |-> TRUE, result |-> NoResult,
     trace |-> IF name = "select" THEN trace
               ELSE Append(trace, [stage |-> name, raised |-> TRUE, result |-> NoResult])]

\* "# Decompilation failed for <name>\n"
FailedDocument == <<L("comment", 0), L("blank", 0)>>

\* AfterPylingual without the marker document of lines 414-419: the best
\* result is returned even when it is empty.
AfterPylingual_BestReturned(inp, best_result, pylingual_result, trace) ==
    IF is_complete(pylingual_result) THEN Return(pylingual_result, trace)
    ELSE IF /\ pylingual_result.source # NoText
            /\ \/ _count_incomplete_raises(pylingual_result, inp.bc)
               \/ _count_incomplete_raises(best_result, inp.bc)
    THEN Raise("select", trace)
    ELSE IF /\ pylingual_result.source # NoText
            /\ _count_incomplete(pylingual_result, inp.bc)
                 < _count_incomplete(best_result, inp.bc)
    THEN Return(pylingual_result, trace)
    ELSE Return(best_result, trace)

\* Lines 402-419, with pylingual_result the outcome of the backend.
AfterPylingual(inp, best_result, pylingual_result, trace) ==
    IF is_complete(pylingual_result) THEN Return(pylingual_result, trace)
    ELSE IF /\ pylingual_result.source # NoText
            /\ \/ _count_incomplete_raises(pylingual_result, inp.bc)
               \/ _count_incomplete_raises(best_result, inp.bc)
    THEN Raise("select", trace)
    ELSE LET best == IF /\ pylingual_result.source # NoText
                        /\ _count_incomplete(pylingual_result, inp.bc)
                             < _count_incomplete(best_result, inp.bc)
                     THEN pylingual_result ELSE best_result
         IN IF best.source # NoText THEN Return(best, trace)
            ELSE Return(DecompileResult(FailedDocument, <<"none">>, MAX_INCOMPLETE,
                                        "All tools failed"),
                        trace)

\* Lines 400-401: pylingual as the fallback.
TryPylingual(inp, best_result, pylingual_result, trace) ==
    AfterPylingual(inp, best_result, pylingual_result,
                   Append(trace, Stage("pylingual", pylingual_result)))

\* Lines 394-398, with call the call of the LLM Recovery Pass; trace has
\* an "llm" stage where LLM recovery is enabled.
AfterLlm(inp, env, best_result, call, trace) ==
    IF call.raised THEN Raise("llm", trace)
    ELSE IF is_complete(call.result)
    THEN Return(call.result,
                IF LlmEnabled(env) THEN Append(trace, Stage("llm", call.result)) ELSE trace)
    ELSE IF _count_incomplete_raises(call.result, inp.bc)
    THEN Raise("select",
               IF LlmEnabled(env) THEN Append(trace, Stage("llm", call.result)) ELSE trace)
    ELSE TryPylingual(inp,
                      IF _count_incomplete(call.result, inp.bc)
                           < _count_incomplete(best_result, inp.bc)
                      THEN call.result ELSE best_result,
                      decompile_with_pylingual(inp.pyl),
                      IF LlmEnabled(env) THEN Append(trace, Stage("llm", call.result))
                      ELSE trace)

\* AfterRepair without "if result.is_complete: return result" at line 390.
AfterRepair_NoEarlyReturn(inp, env, best_result, call, trace) ==
    IF call.raised THEN Raise("repair", trace)
    ELSE AfterLlm(inp, env, best_result,
                  _try_llm_recovery(call.result, inp.bc, env, inp.replies),
                  Append(trace, Stage("repair", call.result)))

\* Lines 389-393, with call the call of the Repair Pass.
AfterRepair(inp, env, best_result, call, trace) ==
    IF call.raised THEN Raise("repair", trace)
    ELSE IF is_complete(call.result)
    THEN Return(call.result, Append(trace, Stage("repair", call.result)))
    ELSE AfterLlm(inp, env, best_result,
                  _try_llm_recovery(call.result, inp.bc, env, inp.replies),
                  Append(trace, Stage("repair", call.result)))

\* AfterPycdc with pycdc's outcome kept as it is: no pass applied to it.
AfterPycdc_NoPasses(inp, env, best_result, result, trace) ==
    IF is_complete(result) THEN Return(result, trace)
    ELSE TryPylingual(inp,
                      IF result.source # NoText THEN result ELSE best_result,
                      decompile_with_pylingual(inp.pyl), trace)

\* Lines 384-398, with result the outcome of pycdc.
AfterPycdc(inp, env, best_result, result, trace) ==
    IF is_complete(result) THEN Return(result, trace)
    ELSE IF result.source # NoText
    THEN AfterRepair(inp, env, best_result,
                     _try_improve_with_bytecode(result, inp.bc), trace)
    ELSE TryPylingual(inp, best_result, decompile_with_pylingual(inp.pyl), trace)

\* Lines 378-383, with result the outcome of decompyle3.
AfterDecompyle3(inp, env, best_result, result, pycdc_result) ==
    IF is_complete(result) THEN Return(result, <<Stage("decompyle3", result)>>)
    ELSE AfterPycdc(inp, env, best_result, pycdc_result,
                    <<Stage("decompyle3", result), Stage("pycdc", pycdc_result)>>)

decompile_file(inp, env) ==
    AfterDecompyle3(inp, env,
                    DecompileResult(NoText, <<"none">>, MAX_INCOMPLETE,
                                    "No decompiler succeeded"),
                    decompile_with_decompyle3(inp.d3),
                    decompile_with_pycdc(inp.cdc))

\* Lines 468-484, with run the call of decompile_file.
WriteOutput(run) ==
    IF run.raised THEN [raised |-> TRUE, result |-> NoResult, written |-> NoText]
    ELSE IF run.result.source # NoText /\ ~validate_syntax(run.result.source)
    THEN [raised |-> FALSE,
          result |-> DecompileResult(<<L("comment", 0)>> \o run.result.source,
                                     run.result.tool,
                                     IF run.result.incomplete_count > 1
                                     THEN run.result.incomplete_count ELSE 1,
                                     "Syntax error in output"),
          written |-> <<L("comment", 0)>> \o run.result.source]
    ELSE [raised |-> FALSE, result |-> run.result, written |-> run.result.source]

\* decompile_directory.process_file: [raised, result, written]; written
\* is the text it wrote to the output path (NoText: nothing was written).
process_file(inp, env) == WriteOutput(decompile_file(inp, env))

-----------------------------------------------------------------------------
(* The inputs explored: what the collaborators may answer.                 *)

stmt0 == L("stmt", 0)
bad0 == L("bad", 0)
warn0 == L("warn", 0)
warn1 == L("warn", 1)
def0 == L("def", 0)
class0 == L("class", 0)
pass1 == L("pass", 1)
stmt1 == L("stmt", 1)
comment0 == L("comment", 0)

D3Run(stdout, stderr, code, unsupported) ==
    [stdout |-> stdout, stderr |-> stderr, code |-> code, unsupported |-> unsupported]

\* decompyle3 runs that end the pipeline or not, whatever the others answer.
D3Runs ==
    { D3Run(<<stmt0>>, "", 0, FALSE),              \* valid code
      D3Run(<<bad0>>, "", 0, FALSE),               \* code that does not parse
      D3Run(<<stmt0, warn0>>, "", 0, FALSE),       \* code with a marker in it
      D3Run(<<comment0>>, "", 0, FALSE),           \* comments only
      D3Run(NoText, "", 0, FALSE),                 \* nothing
      D3Run(<<stmt0>>, "Traceback", 1, FALSE),     \* nonzero exit
      D3Run(NoText, "Timeout", 0 - 1, FALSE),      \* run_command timed out
      D3Run(NoText, "", 1, TRUE) }                 \* Unsupported Python version

\* The decompyle3 runs paired with every answer of the other collaborators.
D3Failing == { D3Run(<<stmt0>>, "Traceback", 1, FALSE), D3Run(<<comment0>>, "", 0, FALSE) }

CdcTexts ==
    { <<stmt0>>,                                   \* complete
      <<bad0>>,                                    \* does not parse, no marker
      <<stmt0, warn0>>,                            \* a module-level marker
      <<def0, pass1, warn1>>,                      \* f lost, marked
      <<def0, pass1>>,                             \* f pass-only, no marker
      <<def0, pass1, stmt0, warn0>>,               \* f pass-only, and a module-level marker
      <<class0, pass1>>,                           \* C pass-only, no marker
      <<class0, pass1, warn1>>,                    \* C lost, marked
      <<def0, pass1, warn1, stmt0, warn0>>,        \* f lost, and a module-level marker
      <<class0, pass1, stmt0, warn0>>,             \* C pass-only, and a module-level marker
      <<class0, pass1, class0, pass1, stmt0, warn0>>,  \* two pass-only classes, and a marker
      <<def0, pass1, warn1, bad0>>,                \* f lost, and a line that does not parse
      <<def0, stmt1, stmt0, warn0>> }              \* f complete, above a module-level marker

CdcRun(built, stdout, stderr) == [built |-> built, stdout |-> stdout, stderr |-> stderr]

CdcRuns ==
    { CdcRun(TRUE, t, "") : t \in CdcTexts } \cup
    { CdcRun(FALSE, NoText, ""), CdcRun(TRUE, NoText, "Error") }

PylTexts ==
    { <<stmt0>>,
      <<bad0>>,
      <<stmt0, warn0>>,
      <<stmt0, warn0, stmt0, warn0>>,
      <<class0, pass1>> }

PylRun(installed, raised, source) ==
    [installed |-> installed, raised |-> raised, source |-> source]

PylRuns ==
    { PylRun(TRUE, "", t) : t \in PylTexts } \cup
    { PylRun(FALSE, "", NoText), PylRun(TRUE, "model failed", NoText) }

AgentReplies ==
    { NoText,                                      \* timeout, failure, or no code
      <<stmt1>>,                                   \* code that parses once dedented
      <<bad0>>,                                    \* code that does not parse
      <<class0, pass1, class0, pass1>> }           \* two pass-only classes

NoReplies == [fix |-> NoText, full |-> NoText, func |-> NoText]

ReplySets == [fix : AgentReplies, full : AgentReplies, func : {NoText}]

LlmOn == [use_llm |-> TRUE, has_llm |-> TRUE]

\* LLM recovery not asked for, and asked for where llm_recovery did not import.
LlmOff == { [use_llm |-> FALSE, has_llm |-> TRUE], [use_llm |-> TRUE, has_llm |-> FALSE] }

FileInput(d3, cdc, pyl, bc, replies) ==
    [d3 |-> d3, cdc |-> cdc, pyl |-> pyl, bc |-> bc, replies |-> replies]

\* Every decompyle3 run, and for the failing ones every answer of the
\* others; the agent's replies vary where the agent can be called.
FileArgs ==
    { [inp |-> FileInput(d3, CdcRun(TRUE, <<stmt0, warn0>>, ""), PylRun(TRUE, "", <<stmt0>>),
                         EmptyOracle, NoReplies),
       env |-> LlmOn] : d3 \in D3Runs }
    \cup
    { [inp |-> FileInput(d3, cdc, pyl, bc, replies), env |-> env] :
        d3 \in D3Failing, cdc \in CdcRuns, pyl \in PylRuns, bc \in Oracles,
        replies \in {NoReplies}, env \in LlmOff }
    \cup
    { [inp |-> FileInput(d3, cdc, pyl, bc, replies), env |-> LlmOn] :
        d3 \in D3Failing, cdc \in CdcRuns, pyl \in PylRuns, bc \in Oracles,
        replies \in ReplySets }

-----------------------------------------------------------------------------
VARIABLES
    status,     \* decompile_directory: artifact -> "queued", "running", "done", "raised"
    outcome,    \* artifact -> what its process_file returned (its future)
    given,      \* artifact -> what the collaborators answered for it
    yielded,    \* the artifacts whose future as_completed has handed to the loop
    mark,       \* artifact -> the status symbol the loop gave it: "+", "x" or "~"
    stats,      \* the stats dict
    pc,         \* where decompile_directory is
    env,        \* use_llm and HAS_LLM_RECOVERY of the run
    call,       \* a call taken on its own: the function called
    arg,        \* its arguments
    ret,        \* what it returned
    phase       \* "called" or "returned"

vars == <<status, outcome, given, yielded, mark, stats, pc, env, call, arg, ret, phase>>

dirVars == <<status, outcome, given, yielded, mark, stats, pc, env>>
callVars == <<call, arg, ret, phase>>

ZeroStats == [total |-> 0, complete |-> 0, incomplete |-> 0, failed |-> 0, by_tool |-> << >>]

NoDirectory ==
    /\ status = << >>
    /\ outcome = << >>
    /\ given = << >>
    /\ yielded = {}
    /\ mark = << >>
    /\ stats = ZeroStats
    /\ pc = "none"
    /\ env = [use_llm |-> FALSE, has_llm |-> FALSE]

NoCall ==
    /\ call = "none"
    /\ arg = << >>
    /\ ret = << >>
    /\ phase = "none"

-----------------------------------------------------------------------------
(* One call of decompile_file.                                             *)

InitFile ==
    /\ NoDirectory
    /\ call = "decompile_file"
    /\ arg \in FileArgs
    /\ ret = << >>
    /\ phase = "called"

DecompileFile ==
    /\ call = "decompile_file"
    /\ phase = "called"
    /\ ret' = decompile_file(arg.inp, arg.env)
    /\ phase' = "returned"
    /\ UNCHANGED <<call, arg>>
    /\ UNCHANGED dirVars

NextFile == DecompileFile

SpecFile == InitFile /\ [][NextFile]_vars

-----------------------------------------------------------------------------
(* One call of recover_incomplete_file.                                    *)

RecoverArgs ==
    [source : CdcTexts \cup PylTexts, bytecode : Oracles,
     replies : [fix : AgentReplies, full : AgentReplies, func : AgentReplies]]

InitRecover ==
    /\ NoDirectory
    /\ call = "recover_incomplete_file"
    /\ arg \in RecoverArgs
    /\ ret = << >>
    /\ phase = "called"

RecoverIncompleteFile ==
    /\ call = "recover_incomplete_file"
    /\ phase = "called"
    /\ ret' = recover_incomplete_file(arg.source, arg.bytecode, arg.replies)
    /\ phase' = "returned"
    /\ UNCHANGED <<call, arg>>
    /\ UNCHANGED dirVars

NextRecover == RecoverIncompleteFile

SpecRecover == InitRecover /\ [][NextRecover]_vars

RecoverReturned == call = "recover_incomplete_file" /\ phase = "returned" /\ ~ret.raised

\* C4: the text recover_incomplete_file returns parses, or it is the text
\* the function was given, returned with a recovered count of 0.
C4_ValidOrIdentical ==
    RecoverReturned =>
        \/ validate_syntax(ret.source)
        \/ ret.source = arg.source /\ ret.count = 0

\* C4 witness: a text that does not parse and agent replies that do not
\* parse either; the text came back as it was, with a count of 0.
C4_Witness ==
    /\ RecoverReturned
    /\ ~validate_syntax(arg.source)
    /\ arg.replies.fix = <<bad0>>
    /\ arg.replies.full = <<bad0>>
    /\ ret.source = arg.source
    /\ ret.count = 0

-----------------------------------------------------------------------------
(* The two loops of recover_incomplete_file (lines 570-601), one step per  *)
(* item, from the lists of items the two finders hand them.  An item is    *)
(* an IncompleteFunction or IncompleteClass: [kind, lineno, end_lineno,    *)
(* indent].  ret is [lines, count, classes, funcs, log]: result_lines,     *)
(* recovered_count, the items each loop has still to visit, and a log of   *)
(* the items visited, each with the code recover_class / recover_function  *)
(* returned for it (NoText for None, or where the loop skipped the item).  *)

Item(source, kind, i) ==
    [kind |-> kind, lineno |-> i, end_lineno |-> Max(Body(source, i)), indent |-> source[i].d]

\* The pass-only classes, and the pass-only functions a marker follows.
LocatedClasses(source) == { Item(source, "class", i) : i \in AstPassOnly(source, "class") }

LocatedFunctions(source) ==
    { Item(source, "def", i) : i \in find_incomplete_functions(source, EmptyOracle) }

def1 == L("def", 1)
pass2 == L("pass", 2)
warn2 == L("warn", 2)

SpliceTexts ==
    { <<class0, pass1, def0, pass1, warn1>>,             \* C above f
      <<def0, pass1, warn1, class0, pass1>>,             \* f above C
      <<def0, pass1, warn1, def0, pass1, warn1>>,        \* two functions
      <<class0, pass1, class0, pass1>>,                  \* two classes
      <<class0, def1, pass2, warn2>>,                    \* a method of C lost
      <<class0, stmt1, def1, pass2, warn2, def0, pass1, warn1>> }  \* a method and f

ItemReplies ==
    { NoText,
      <<bad0>>,
      <<def0, stmt1>>,                                   \* as long as the item
      <<def1, pass2>>,                                   \* indented; parses once dedented
      <<def0, stmt1, stmt1, stmt1>> }                    \* longer than the item

ClassReplies ==
    { NoText,
      <<class0, stmt1>>,                                 \* as long as the item
      <<class0, stmt1, stmt1, stmt1>> }                  \* longer than the item

SpliceArgs ==
    [source : SpliceTexts,
     bytecode : {Oracle(TRUE, {"f"}, FALSE, 0), Oracle(TRUE, {}, FALSE, 0)},
     replies : [cls : ClassReplies, func : ItemReplies]]

InitSplice ==
    /\ NoDirectory
    /\ call = "splice"
    /\ arg \in SpliceArgs
    /\ ret = [lines |-> arg.source, count |-> 0, log |-> << >>,
              classes |-> LocatedClasses(arg.source),
              funcs |-> LocatedFunctions(arg.source)]
    /\ phase = "called"

Visited(item, recovered) == [item |-> item, recovered |-> recovered]

\* What a visit of item leaves in ret, recovered being the code to splice.
SpliceItem(st, item, recovered) ==
    IF recovered = NoText
    THEN [st EXCEPT !.log = Append(@, Visited(item, NoText))]
    ELSE [st EXCEPT
            !.lines = SpliceLines(@, item.lineno - 1,
                                  find_warning_end_index(st.lines, item.end_lineno),
                                  recovered),
            !.count = @ + 1,
            !.log = Append(@, Visited(item, recovered))]

\* Lines 576-582: one turn of the loop over the classes.
RecoverClassStep ==
    /\ call = "splice" /\ phase = "called"
    /\ ret.classes # {}
    /\ \E cls \in ret.classes :
         /\ \A c \in ret.classes : c.lineno <= cls.lineno
         /\ ret' = [SpliceItem(ret, cls, recover_class(cls.indent, arg.replies.cls))
                      EXCEPT !.classes = @ \ {cls}]
    /\ UNCHANGED <<call, arg, phase>>
    /\ UNCHANGED dirVars

\* Lines 587-601: one turn of the loop over the functions.
RecoverFunctionStep ==
    /\ call = "splice" /\ phase = "called"
    /\ ret.classes = {}
    /\ ret.funcs # {}
    /\ \E func \in ret.funcs :
         /\ \A f \in ret.funcs : f.lineno <= func.lineno
         /\ ret' = [SpliceItem(ret, func,
                               IF extract_bytecode_for_function(arg.bytecode)
                               THEN recover_function(func.indent, arg.replies.func)
                               ELSE NoText)
                      EXCEPT !.funcs = @ \ {func}]
    /\ UNCHANGED <<call, arg, phase>>
    /\ UNCHANGED dirVars

\* Both loops are over (line 603).
SpliceDone ==
    /\ call = "splice" /\ phase = "called"
    /\ ret.classes = {} /\ ret.funcs = {}
    /\ phase' = "returned"
    /\ UNCHANGED <<call, arg, ret>>
    /\ UNCHANGED dirVars

NextSplice == RecoverClassStep \/ RecoverFunctionStep \/ SpliceDone

SpecSplice == InitSplice /\ [][NextSplice]_vars

\* The visits of the log that spliced code into the document.
Spliced == { i \in 1..Len(ret.log) : ret.log[i].recovered # NoText }

ReplyCode(kind) ==
    extract_code_from_response(IF kind = "class" THEN arg.replies.cls ELSE arg.replies.func)

\* C12: an item at any depth whose reply carries code that parses once
\* dedented is accepted: the code spliced for it is that code, dedented
\* and indented again to the depth of the item.
C12_AcceptedAtAnyDepth ==
    call = "splice" =>
        \A i \in 1..Len(ret.log) :
            LET item == ret.log[i].item IN
            (/\ ReplyCode(item.kind) # NoText
             /\ item.kind = "def" => extract_bytecode_for_function(arg.bytecode))
            => ret.log[i].recovered = Reindent(dedent(ReplyCode(item.kind)), item.indent)

-----------------------------------------------------------------------------
(* bytecode_utils.py on a BytecodeInfo.  A code unit (CodeType) is         *)
(* [co_name, co_consts, co_stacksize, co_names, co_code]: co_consts holds  *)
(* the nested code units of the constant pool only, co_names is the set of *)
(* names referenced and co_code the length in bytes of the instruction     *)
(* stream.  A dotted name is the sequence of its parts; code_objects (a    *)
(* dict, which keeps insertion order) is a sequence of [key, code].        *)

Unit(name, consts, stacksize, names, length) ==
    [co_name |-> name, co_consts |-> consts, co_stacksize |-> stacksize,
     co_names |-> names, co_code |-> length]

\* d[key] = code
Put(d, key, code) ==
    IF \E i \in 1..Len(d) : d[i].key = key
    THEN [i \in 1..Len(d) |-> IF d[i].key = key THEN [key |-> key, code |-> code] ELSE d[i]]
    ELSE Append(d, [key |-> key, code |-> code])

\* d.update(e)
RECURSIVE DictUpdate(_, _)
DictUpdate(d, e) ==
    IF e = << >> THEN d ELSE DictUpdate(Put(d, Head(e).key, Head(e).code), Tail(e))

RECURSIVE _get_code_objects(_, _)
RECURSIVE CollectConsts(_, _, _)
\* The loop over code.co_consts.
CollectConsts(result, consts, name) ==
    IF consts = << >> THEN result
    ELSE CollectConsts(DictUpdate(result, _get_code_objects(Head(consts), name)),
                       Tail(consts), name)

_get_code_objects(code, prefix) ==
    LET name == IF prefix # << >> THEN Append(prefix, code.co_name) ELSE <<code.co_name>>
    IN CollectConsts(<<[key |-> name, code |-> code]>>, code.co_consts, name)

\* key.endswith(f".{name}")
EndsWithDot(key, name) ==
    /\ Len(key) > Len(name)
    /\ SubSeq(key, Len(key) - Len(name) + 1, Len(key)) = name

NoCode == [co_name |-> "None"]

\* BytecodeInfo.get_code: [raised, code]; code is NoCode for None.
get_code(code_objects, name) ==
    LET exact == { i \in 1..Len(code_objects) : code_objects[i].key = name }
        suffix == { i \in 1..Len(code_objects) :
                      EndsWithDot(code_objects[i].key, name) \/ code_objects[i].key = name }
    IN IF exact # {} THEN [raised |-> "", code |-> code_objects[Min(exact)].code]
       ELSE IF suffix # {} THEN [raised |-> "", code |-> code_objects[Min(suffix)].code]
       ELSE [raised |-> "", code |-> NoCode]

MaxEmptyStackSize == 1
MaxEmptyCodeLength == 10

\* is_empty_code_object with "<" for "<=" on the length of the code.
is_empty_code_object_Shorter(code) ==
    IF code.co_consts # << >> THEN FALSE
    ELSE IF code.co_stacksize > MaxEmptyStackSize THEN FALSE
    ELSE IF code.co_names # {} THEN FALSE
    ELSE code.co_code < MaxEmptyCodeLength

is_empty_code_object(code) ==
    IF code.co_consts # << >> THEN FALSE
    ELSE IF code.co_stacksize > MaxEmptyStackSize THEN FALSE
    ELSE IF code.co_names # {} THEN FALSE
    ELSE code.co_code <= MaxEmptyCodeLength

\* is_truly_empty_function on a BytecodeInfo.
is_truly_empty_function(code_objects, func_name) ==
    LET code == get_code(code_objects, func_name).code IN
    IF code = NoCode THEN TRUE ELSE is_empty_code_object(code)

MaxStackSize == 2
MaxCodeLength == 12

\* A module-level lambda, for a unit with a nested code unit.
lambda0 == Unit("<lambda>", << >>, 1, {}, 6)

CodeUnits ==
    { Unit("f", consts, stacksize, names, length) :
        consts \in {<< >>, <<lambda0>>}, stacksize \in 0..MaxStackSize,
        names \in {{}, {"x"}}, length \in 0..MaxCodeLength }

\* A function f that is empty, and one that is not.
EmptyF == Unit("f", << >>, 1, {}, 6)
FullF == Unit("f", << >>, 2, {"x"}, 12)

ModuleMembers ==
    { EmptyF, FullF,
      Unit("C", <<EmptyF>>, 1, {"__name__"}, 12), Unit("C", <<FullF>>, 1, {"__name__"}, 12),
      Unit("D", <<EmptyF>>, 1, {"__name__"}, 12), Unit("D", <<FullF>>, 1, {"__name__"}, 12) }

\* The code_objects of the modules with at most two members.
Indexes ==
    { _get_code_objects(Unit("<module>", consts, 2, {"x"}, 12), << >>) :
        consts \in {<< >>} \cup { <<m>> : m \in ModuleMembers }
                       \cup { <<m, n>> : m \in ModuleMembers, n \in ModuleMembers } }

LookupNames == { <<"f">>, <<"g">>, <<"C", "f">>, <<"<module>", "f">> }

InitBytecode ==
    /\ NoDirectory
    /\ \/ /\ call \in {"get_code", "is_truly_empty_function"}
          /\ arg \in [code_objects : Indexes, name : LookupNames]
       \/ /\ call = "is_empty_code_object"
          /\ arg \in [code : CodeUnits]
    /\ ret = << >>
    /\ phase = "called"

GetCode ==
    /\ call = "get_code" /\ phase = "called"
    /\ ret' = get_code(arg.code_objects, arg.name)
    /\ phase' = "returned"
    /\ UNCHANGED <<call, arg>>
    /\ UNCHANGED dirVars

IsTrulyEmptyFunction ==
    /\ call = "is_truly_empty_function" /\ phase = "called"
    /\ ret' = is_truly_empty_function(arg.code_objects, arg.name)
    /\ phase' = "returned"
    /\ UNCHANGED <<call, arg>>
    /\ UNCHANGED dirVars

IsEmptyCodeObject ==
    /\ call = "is_empty_code_object" /\ phase = "called"
    /\ ret' = is_empty_code_object(arg.code)
    /\ phase' = "returned"
    /\ UNCHANGED <<call, arg>>
    /\ UNCHANGED dirVars

NextBytecode == GetCode \/ IsTrulyEmptyFunction \/ IsEmptyCodeObject

SpecBytecode == InitBytecode /\ [][NextBytecode]_vars

\* The units of the index whose key is the name or ends in ".name".
Matching(code_objects, name) ==
    { i \in 1..Len(code_objects) :
        code_objects[i].key = name \/ EndsWithDot(code_objects[i].key, name) }

\* C13: a name with no exact match and two or more units whose key ends
\* in ".name": get_code raises Ambiguous; it returns a suffix match only
\* when that is the single candidate.
C13_AmbiguousLookupRaises ==
    (/\ call = "get_code" /\ phase = "returned"
     /\ \A i \in 1..Len(arg.code_objects) : arg.code_objects[i].key # arg.name
     /\ Cardinality(Matching(arg.code_objects, arg.name)) >= 2)
    => ret.raised = "Ambiguous"

\* C14: is_truly_empty_function answers True only where a unit matching
\* the name was found and that unit is an empty code object; where no
\* unit matches the function is not taken for empty.
C14_EmptyOnlyIfUnitConfirms ==
    (call = "is_truly_empty_function" /\ phase = "returned" /\ ret = TRUE)
    => \E i \in Matching(arg.code_objects, arg.name) :
          is_empty_code_object(arg.code_objects[i].code)

\* C15: is_empty_code_object is True exactly for a unit with no nested
\* code unit, a stack size of at most 1, no names and at most 10 bytes of
\* instructions.
C15_EmptyIffFourConditions ==
    (call = "is_empty_code_object" /\ phase = "returned")
    => (ret = TRUE <=> /\ arg.code.co_consts = << >>
                       /\ arg.code.co_stacksize <= 1
                       /\ arg.code.co_names = {}
                       /\ arg.code.co_code <= 10)

\* C15 witness: a unit 11 bytes long that meets the three other
\* conditions is not empty.
C15_Witness ==
    /\ call = "is_empty_code_object" /\ phase = "returned"
    /\ arg.code.co_consts = << >>
    /\ arg.code.co_stacksize = 1
    /\ arg.code.co_names = {}
    /\ arg.code.co_code = 11
    /\ ret = FALSE

-----------------------------------------------------------------------------
(* bytecode_utils.py, recovery of module-level constants.  A name is a pair
   of an identifier and a number (N 1, N 2, ... are distinct names); a
   constant of the pool is a record of its type, its digits and, for a dict,
   its items.  Python's None is the constant PyNone.  The instruction stream
   co_code is the sequence of its two-byte instructions, each an opcode
   and a one-byte argument. *)

Name(id, n) == <<id, n>>

Const(type, repr, items) == [type |-> type, repr |-> repr, items |-> items]
PyNone == Const("NoneType", << >>, << >>)
PyInt(n) == Const("int", <<n>>, << >>)
PyTuple(ns) == Const("tuple", ns, << >>)
PyDict(items) == Const("dict", << >>, items)

\* The opcodes of CPython 3.11 that occur in the module code.
Opcode ==
    [CACHE |-> 0, POP_TOP |-> 1, RETURN_VALUE |-> 83, STORE_NAME |-> 90,
     UNPACK_SEQUENCE |-> 92, LOAD_CONST |-> 100, LOAD_NAME |-> 101,
     BUILD_MAP |-> 105, EXTENDED_ARG |-> 144, MAP_ADD |-> 147, RESUME |-> 151,
     BUILD_CONST_KEY_MAP |-> 156]

\* bytecode[i + 1] is one byte.
Byte == 256

Instr(op, a) == [op |-> op, arg |-> a]

\* seq[i] of Python, from 0.
At(seq, i) == seq[i + 1]

\* tuple.index(x), from 0; Len(table) where x is absent.
IndexOf(table, x) ==
    IF \E j \in 1..Len(table) : table[j] = x
    THEN Min({ j \in 1..Len(table) : table[j] = x }) - 1
    ELSE Len(table)

\* --- The module code that CPython 3.11 compiles from a few statements. ---

\* One instruction, with the EXTENDED_ARG prefix of an argument over a byte.
Emit(op, a) ==
    IF a >= Byte
    THEN <<Instr(Opcode.EXTENDED_ARG, (a \div Byte) % Byte), Instr(op, a % Byte)>>
    ELSE <<Instr(op, a)>>

\* The elements of xs in the order of their first occurrence: the table
\* the compiler fills as it meets names and constants.
Interned(xs) ==
    LET first == SelectSeq([i \in 1..Len(xs) |-> i],
                           LAMBDA i : \A j \in 1..(i - 1) : xs[j] # xs[i])
    IN  [k \in 1..Len(first) |-> xs[first[k]]]

Stmt(s, names, const) == [s |-> s, names |-> names, const |-> const]

RECURSIVE ItemConsts(_)
ItemConsts(items) ==
    IF items = << >> THEN << >>
    ELSE <<Head(items).key, Head(items).val>> \o ItemConsts(Tail(items))

RECURSIVE ItemValues(_)
ItemValues(items) ==
    IF items = << >> THEN << >> ELSE <<Head(items).val>> \o ItemValues(Tail(items))

RECURSIVE ItemKeys(_)
ItemKeys(items) ==
    IF items = << >> THEN << >>
    ELSE Head(items).key.repr \o ItemKeys(Tail(items))

\* The key of the pair of a "dictname" display whose value is a name.
NameKey == PyInt(99)

\* The constants a statement loads, in the order of their first load.
StmtConsts(st) ==
    CASE st.s = "expr" -> << >>
      [] st.s = "emptydict" -> << >>
      [] st.s = "dict" -> ItemConsts(st.const.items)
      [] st.s = "dictname" -> ItemConsts(st.const.items) \o <<NameKey>>
      [] st.s = "keymap" ->
            ItemValues(st.const.items) \o <<PyTuple(ItemKeys(st.const.items))>>
      [] OTHER -> <<st.const>>

RECURSIVE LoadAll(_, _)
LoadAll(cs, consts) ==
    IF cs = << >> THEN << >>
    ELSE Emit(Opcode.LOAD_CONST, IndexOf(consts, Head(cs))) \o LoadAll(Tail(cs), consts)

RECURSIVE MapAdds(_, _)
MapAdds(items, consts) ==
    IF items = << >> THEN << >>
    ELSE Emit(Opcode.LOAD_CONST, IndexOf(consts, Head(items).key))
         \o Emit(Opcode.LOAD_CONST, IndexOf(consts, Head(items).val))
         \o <<Instr(Opcode.MAP_ADD, 1)>> \o MapAdds(Tail(items), consts)

\* The instructions of one statement, its names and constants interned.
StmtCode(st, names, consts) ==
    CASE st.s = "expr" ->
            Emit(Opcode.LOAD_NAME, IndexOf(names, st.names[1]))
            \o <<Instr(Opcode.POP_TOP, 0)>>
      [] st.s = "assign" ->
            Emit(Opcode.LOAD_CONST, IndexOf(consts, st.const))
            \o Emit(Opcode.STORE_NAME, IndexOf(names, st.names[1]))
      [] st.s = "unpack" ->
            Emit(Opcode.LOAD_CONST, IndexOf(consts, st.const))
            \o <<Instr(Opcode.UNPACK_SEQUENCE, 2), Instr(Opcode.CACHE, 0)>>
            \o Emit(Opcode.STORE_NAME, IndexOf(names, st.names[1]))
            \o Emit(Opcode.STORE_NAME, IndexOf(names, st.names[2]))
      [] st.s = "emptydict" ->
            <<Instr(Opcode.BUILD_MAP, 0)>>
            \o Emit(Opcode.STORE_NAME, IndexOf(names, st.names[1]))
      [] st.s = "dict" ->
            <<Instr(Opcode.BUILD_MAP, 0)>> \o MapAdds(st.const.items, consts)
            \o Emit(Opcode.STORE_NAME, IndexOf(names, st.names[1]))
      [] st.s = "dictname" ->
            <<Instr(Opcode.BUILD_MAP, 0)>> \o MapAdds(st.const.items, consts)
            \o Emit(Opcode.LOAD_CONST, IndexOf(consts, NameKey))
            \o Emit(Opcode.LOAD_NAME, IndexOf(names, st.names[2]))
            \o <<Instr(Opcode.MAP_ADD, 1)>>
            \o Emit(Opcode.STORE_NAME, IndexOf(names, st.names[1]))
      [] OTHER ->
            LoadAll(StmtConsts(st), consts)
            \o <<Instr(Opcode.BUILD_CONST_KEY_MAP, Len(st.const.items))>>
            \o Emit(Opcode.STORE_NAME, IndexOf(names, st.names[1]))

ModuleCode(names, consts, code) ==
    [co_names |-> names, co_consts |-> consts, co_code |-> code]

\* The names of a statement in the order the compiler meets them: the
\* name a dict display loads comes before the name stored.
StmtNames(st) == IF st.s = "dictname" THEN <<st.names[2], st.names[1]>> ELSE st.names

\* f(stmts[lo]) \o ... \o f(stmts[hi]).
RECURSIVE Flat(_, _, _, _)
Flat(f(_), stmts, lo, hi) ==
    IF lo > hi THEN << >>
    ELSE IF lo = hi THEN f(stmts[lo])
    ELSE Flat(f, stmts, lo, (lo + hi) \div 2) \o Flat(f, stmts, (lo + hi) \div 2 + 1, hi)

CompileWith(stmts, names, consts) ==
    ModuleCode(names, consts,
               <<Instr(Opcode.RESUME, 0)>>
               \o Flat(LAMBDA st : StmtCode(st, names, consts), stmts, 1, Len(stmts))
               \o Emit(Opcode.LOAD_CONST, IndexOf(consts, PyNone))
               \o <<Instr(Opcode.RETURN_VALUE, 0)>>)

Compile(stmts) ==
    CompileWith(stmts, Interned(Flat(StmtNames, stmts, 1, Len(stmts))),
                Interned(Flat(StmtConsts, stmts, 1, Len(stmts)) \o <<PyNone>>))

\* --- find_missing_module_constants ---

NoName == Name("", 0)

Target(tuple, ids) == [tuple |-> tuple, ids |-> ids]
Alias(name, asname) == [name |-> name, asname |-> asname]
Node(node, name, targets, aliases, body) ==
    [node |-> node, name |-> name, targets |-> targets, aliases |-> aliases, body |-> body]

\* The first component of a dotted identifier.
FirstComponent(id) == IF id = "os.path" THEN "os" ELSE id

\* "." in name.
Dotted(name) == name[1] \in {"os.path"}

\* name.startswith(("__", "_")).
StartsWithUnderscore(name) == name[1] \in {"_private", "__all__"}

skip_names == {"annotations", "object", "type", "Exception", "BaseException"}

Elems(seq) == { seq[i] : i \in 1..Len(seq) }

\* The names one direct child of the tree adds to defined_names.
ChildNames(node) ==
    CASE node.node \in {"ClassDef", "FunctionDef", "AsyncFunctionDef"} -> {node.name}
      [] node.node = "Assign" ->
            UNION { Elems(t.ids) : t \in { t \in Elems(node.targets) : ~t.tuple } }
      [] node.node = "AnnAssign" ->
            UNION { Elems(t.ids) : t \in { t \in Elems(node.targets) : ~t.tuple } }
      [] OTHER -> {}

\* The names an import found by ast.walk adds to defined_names.
ImportNames(node) ==
    CASE node.node = "Import" ->
            { IF a.asname # NoName THEN a.asname
              ELSE Name(FirstComponent(a.name[1]), a.name[2]) : a \in Elems(node.aliases) }
      [] node.node = "ImportFrom" ->
            { IF a.asname # NoName THEN a.asname ELSE a.name : a \in Elems(node.aliases) }
      [] OTHER -> {}

\* ast.walk over a tree whose statements nest one level deep.
Walk(tree) == Elems(tree) \cup UNION { Elems(node.body) : node \in Elems(tree) }

defined_names(tree) ==
    UNION { ChildNames(node) : node \in Elems(tree) }
    \cup UNION { ImportNames(node) : node \in Walk(tree) }

stored_names(module_code) ==
    { At(module_code.co_names, ins.arg) :
        ins \in { ins \in Elems(module_code.co_code) :
                    /\ ins.op = Opcode.STORE_NAME
                    /\ ins.arg < Len(module_code.co_names) } }

\* The names of the list returned; the list holds them sorted.
find_missing_module_constants(source, module_code) ==
    IF ~source.parses THEN {}
    ELSE { name \in stored_names(module_code) :
             /\ name \notin defined_names(source.body)
             /\ name[1] \notin skip_names
             /\ ~StartsWithUnderscore(name)
             /\ ~Dotted(name) }

\* --- extract_module_constants ---

\* dict_data[key] = val.
SetItem(dict_data, key, val) ==
    IF \E j \in 1..Len(dict_data) : dict_data[j].key = key
    THEN [j \in 1..Len(dict_data) |->
            IF dict_data[j].key = key THEN [key |-> key, val |-> val] ELSE dict_data[j]]
    ELSE Append(dict_data, [key |-> key, val |-> val])

\* The scan backwards from the store for the BUILD_MAP the dict starts at.
first_build_map(instructions, store_idx) ==
    LET maps == { i \in 0..(store_idx - 1) : At(instructions, i).op = Opcode.BUILD_MAP }
        stops == { i \in maps :
                     At(instructions, i + 1).op \notin {Opcode.LOAD_CONST, Opcode.MAP_ADD} }
    IN  IF stops # {} THEN Max(stops) ELSE IF maps # {} THEN Min(maps) ELSE -1

RECURSIVE ZipItems(_, _, _)
ZipItems(dict_data, keys, values) ==
    IF keys = << >> THEN dict_data
    ELSE ZipItems(SetItem(dict_data, PyInt(Head(keys)), Head(values)), Tail(keys), Tail(values))

\* The values of a BUILD_CONST_KEY_MAP at i: the literal-loads among the
\* num_items instructions before the keys tuple.
KeyMapValues(instructions, constants, i) ==
    LET num_items == At(instructions, i).arg
        at == SelectSeq([j \in 1..num_items |-> i - 2 - (num_items - j)],
                        LAMBDA v : v >= 0 /\ At(instructions, v).op = Opcode.LOAD_CONST)
    IN  [j \in 1..Len(at) |-> At(constants, At(instructions, at[j]).arg)]

KeyMapItems(instructions, constants, i, dict_data, keys_tuple, values) ==
    IF /\ keys_tuple.type = "tuple"
       /\ Len(keys_tuple.repr) = At(instructions, i).arg
       /\ Len(values) = At(instructions, i).arg
    THEN ZipItems(dict_data, keys_tuple.repr, values)
    ELSE dict_data

\* One turn of the forward scan.
ItemsAt(instructions, constants, i, dict_data) ==
    IF At(instructions, i).op = Opcode.MAP_ADD
    THEN IF /\ i >= 2
            /\ At(instructions, i - 2).op = Opcode.LOAD_CONST
            /\ At(instructions, i - 1).op = Opcode.LOAD_CONST
         THEN SetItem(dict_data, At(constants, At(instructions, i - 2).arg),
                      At(constants, At(instructions, i - 1).arg))
         ELSE dict_data
    ELSE IF /\ At(instructions, i).op = Opcode.BUILD_CONST_KEY_MAP
            /\ i >= 1
            /\ At(instructions, i - 1).op = Opcode.LOAD_CONST
         THEN KeyMapItems(instructions, constants, i, dict_data,
                          At(constants, At(instructions, i - 1).arg),
                          KeyMapValues(instructions, constants, i))
         ELSE dict_data

\* The forward scan from i up to the store: a turn at any other
\* instruction leaves dict_data as it is, so the scan goes from one
\* MAP_ADD or BUILD_CONST_KEY_MAP to the next.
RECURSIVE CollectItems(_, _, _, _, _)
CollectItems(instructions, constants, i, store_idx, dict_data) ==
    LET adding == { j \in i..(store_idx - 1) :
                      At(instructions, j).op \in {Opcode.MAP_ADD, Opcode.BUILD_CONST_KEY_MAP} }
    IN  IF adding = {} THEN dict_data
        ELSE CollectItems(instructions, constants, Min(adding) + 1, store_idx,
                          ItemsAt(instructions, constants, Min(adding), dict_data))

DictOrNone(dict_data) == IF dict_data # << >> THEN PyDict(dict_data) ELSE PyNone

_trace_stack_value(instructions, store_idx, constants) ==
    IF store_idx = 0 THEN PyNone
    ELSE IF At(instructions, store_idx - 1).op = Opcode.LOAD_CONST
    THEN At(constants, At(instructions, store_idx - 1).arg)
    ELSE IF first_build_map(instructions, store_idx) < 0 THEN PyNone
    ELSE DictOrNone(CollectItems(instructions, constants,
                                 first_build_map(instructions, store_idx), store_idx, << >>))

\* The STORE_NAME instructions whose argument is the index of the name.
StoresOf(module_code, name) ==
    { idx \in 0..(Len(module_code.co_code) - 1) :
        /\ At(module_code.co_code, idx).op = Opcode.STORE_NAME
        /\ At(module_code.co_code, idx).arg = IndexOf(module_code.co_names, name) }

\* The value traced for one name, PyNone where nothing is recorded.
TracedValue(module_code, name) ==
    IF name \notin Elems(module_code.co_names) THEN PyNone
    ELSE IF StoresOf(module_code, name) = {} THEN PyNone
    ELSE _trace_stack_value(module_code.co_code, Min(StoresOf(module_code, name)),
                            module_code.co_consts)

\* The dict returned, as the function from the names recorded to their values.
extract_module_constants(module_code, names) ==
    [name \in { n \in Elems(names) : TracedValue(module_code, n) # PyNone } |->
        TracedValue(module_code, name)]

\* --- The modules and sources of the bounded check. ---

MaxFill == 255
BigDict == 16

NameX == Name("X", 0)
NameY == Name("Y", 0)
NameZ == Name("Z", 0)
NameW == Name("W", 0)
NameA == Name("a", 0)
NameB == Name("b", 0)

DictItems(n) == [i \in 1..n |-> [key |-> PyInt(i), val |-> PyInt(100 + i)]]

\* The items of a second dict display: 51: 151, 52: 152, ...
OtherItems == [i \in 1..BigDict |-> [key |-> PyInt(50 + i), val |-> PyInt(150 + i)]]

\* X = (1, 2, 3); Z = None; a, b = 5, 6; Y = {1: 101, ...}; W = {}; Y = {1: 101, 2: 102};
\* W = {51: 151, ...}; Y = {1: 101, ..., 99: X}
AssignX == Stmt("assign", <<NameX>>, PyTuple(<<1, 2, 3>>))
AssignZ == Stmt("assign", <<NameZ>>, PyNone)
UnpackAB == Stmt("unpack", <<NameA, NameB>>, PyTuple(<<5, 6>>))
BigDictY == Stmt("dict", <<NameY>>, PyDict(DictItems(BigDict)))
EmptyW == Stmt("emptydict", <<NameW>>, PyDict(<< >>))
KeyMapY == Stmt("keymap", <<NameY>>, PyDict(DictItems(2)))
BigDictW == Stmt("dict", <<NameW>>, PyDict(OtherItems))
DictNameY == Stmt("dictname", <<NameY, NameX>>, PyDict(DictItems(BigDict)))

\* The statements before: none, or the expressions `print` and `len`.
Prefixes ==
    { << >>, <<Stmt("expr", <<Name("print", 0)>>, PyNone), Stmt("expr", <<Name("len", 0)>>, PyNone)>> }

\* MaxFill assignments N1 = 7, N2 = 7, ... or N = 1001, N = 1002, ...
Fills ==
    { << >>,
      [i \in 1..MaxFill |-> Stmt("assign", <<Name("N", i)>>, PyInt(7))],
      [i \in 1..MaxFill |-> Stmt("assign", <<Name("N", 0)>>, PyInt(1000 + i))] }

Tails ==
    { <<AssignX>>, <<AssignZ>>, <<UnpackAB, AssignX>>, <<BigDictY>>,
      <<EmptyW, KeyMapY>>, <<AssignX, KeyMapY>>, <<BigDictY, BigDictW>>,
      <<AssignX, DictNameY>> }

ModuleCodes == { Compile(p \o f \o t) : p \in Prefixes, f \in Fills, t \in Tails }

NameTarget(name) == <<Target(FALSE, <<name>>)>>

\* The trees of the sources: X = 0; a, b = 0, 0 and X = 0; X: int = 0;
\* def X; import os.path and from m import Z; def f with import Y in it.
SourceTrees ==
    { << >>,
      <<Node("Assign", NoName, NameTarget(NameX), << >>, << >>)>>,
      <<Node("Assign", NoName, <<Target(TRUE, <<NameA, NameB>>)>>, << >>, << >>),
        Node("Assign", NoName, NameTarget(NameX), << >>, << >>)>>,
      <<Node("AnnAssign", NoName, NameTarget(NameX), << >>, << >>)>>,
      <<Node("FunctionDef", NameX, << >>, << >>, << >>)>>,
      <<Node("Import", NoName, << >>, <<Alias(Name("os.path", 0), NoName)>>, << >>),
        Node("ImportFrom", NoName, << >>, <<Alias(NameZ, NoName)>>, << >>)>>,
      <<Node("FunctionDef", Name("f", 0), << >>, << >>,
             <<Node("Import", NoName, << >>, <<Alias(NameY, NoName)>>, << >>)>>)>> }

Sources ==
    { [parses |-> TRUE, body |-> tree] : tree \in SourceTrees }
    \cup { [parses |-> FALSE, body |-> << >>] }

NameLists == { <<NameX, NameY, NameZ, NameW, NameA>>, <<NameX>>, <<Name("Q", 0), NameZ>> }

InitConstants ==
    /\ NoDirectory
    /\ \/ /\ call = "find_missing_module_constants"
          /\ arg \in [source : Sources, module_code : ModuleCodes]
       \/ /\ call = "extract_module_constants"
          /\ arg \in [module_code : ModuleCodes, names : NameLists]
    /\ ret = << >>
    /\ phase = "called"

FindMissingModuleConstants ==
    /\ call = "find_missing_module_constants" /\ phase = "called"
    /\ ret' = find_missing_module_constants(arg.source, arg.module_code)
    /\ phase' = "returned"
    /\ UNCHANGED <<call, arg>>
    /\ UNCHANGED dirVars

ExtractModuleConstants ==
    /\ call = "extract_module_constants" /\ phase = "called"
    /\ ret' = extract_module_constants(arg.module_code, arg.names)
    /\ phase' = "returned"
    /\ UNCHANGED <<call, arg>>
    /\ UNCHANGED dirVars

NextConstants == FindMissingModuleConstants \/ ExtractModuleConstants

SpecConstants == InitConstants /\ [][NextConstants]_vars

\* The argument of the instruction at idx, its EXTENDED_ARG prefix counted.
FullArg(code, idx) ==
    IF idx >= 1 /\ At(code, idx - 1).op = Opcode.EXTENDED_ARG
    THEN At(code, idx - 1).arg * Byte + At(code, idx).arg
    ELSE At(code, idx).arg

\* The instruction before the one at idx, prefixes skipped; -1 if none.
Before(code, idx) ==
    IF idx >= 1 /\ At(code, idx - 1).op = Opcode.EXTENDED_ARG THEN idx - 2 ELSE idx - 1

\* The instructions that store to the name.
StoresTo(module_code, name) ==
    { idx \in 0..(Len(module_code.co_code) - 1) :
        /\ At(module_code.co_code, idx).op = Opcode.STORE_NAME
        /\ FullArg(module_code.co_code, idx) = IndexOf(module_code.co_names, name) }

\* The names the top level of the tree binds.
BoundAtTopLevel(tree) ==
    UNION { IF node.node \in {"Assign", "AnnAssign"}
            THEN UNION { Elems(t.ids) : t \in Elems(node.targets) }
            ELSE ChildNames(node) \cup ImportNames(node) : node \in Elems(tree) }

\* C16: find_missing_module_constants proposes only names that a
\* module-level store of the bytecode targets and that the top level of
\* the parsed source does not bind.
C16_ProposedAreStoredAndUnbound ==
    (call = "find_missing_module_constants" /\ phase = "returned")
    => \A name \in ret :
          /\ StoresTo(arg.module_code, name) # {}
          /\ name \notin BoundAtTopLevel(arg.source.body)

\* C17: a requested name whose one module-level store comes right after a
\* literal-load is mapped to exactly that literal.
C17_LiteralStoreIsMapped ==
    (call = "extract_module_constants" /\ phase = "returned")
    => \A name \in Elems(arg.names) : \A idx \in StoresTo(arg.module_code, name) :
          (/\ StoresTo(arg.module_code, name) = {idx}
           /\ Before(arg.module_code.co_code, idx) >= 0
           /\ At(arg.module_code.co_code, Before(arg.module_code.co_code, idx)).op
                = Opcode.LOAD_CONST)
          => /\ name \in DOMAIN ret
             /\ ret[name] = At(arg.module_code.co_consts,
                               FullArg(arg.module_code.co_code,
                                       Before(arg.module_code.co_code, idx)))

\* The BUILD_MAP the display stored at idx starts at: the last one before
\* the store, -1 if there is none.
OwnBuildMap(code, idx) ==
    LET maps == { i \in 0..(idx - 1) : At(code, i).op = Opcode.BUILD_MAP }
    IN  IF maps = {} THEN -1 ELSE Max(maps)

\* The MAP_ADD instructions of the display stored at idx.
OwnMapAdds(code, idx) ==
    { i \in (OwnBuildMap(code, idx) + 1)..(idx - 1) : At(code, i).op = Opcode.MAP_ADD }

\* Key and value of the MAP_ADD at i are literal-loads.
LiteralPair(code, i) ==
    /\ Before(code, i) >= 1
    /\ At(code, Before(code, i)).op = Opcode.LOAD_CONST
    /\ At(code, Before(code, Before(code, i))).op = Opcode.LOAD_CONST

\* The store at idx ends a sequence BUILD_MAP 0, (load, load, MAP_ADD)+.
MapDisplayStore(code, idx) ==
    /\ OwnBuildMap(code, idx) >= 0
    /\ At(code, OwnBuildMap(code, idx)).arg = 0
    /\ OwnMapAdds(code, idx) # {}
    /\ \A i \in (OwnBuildMap(code, idx) + 1)..(idx - 1) :
         At(code, i).op \in {Opcode.LOAD_CONST, Opcode.LOAD_NAME, Opcode.MAP_ADD,
                             Opcode.EXTENDED_ARG}

\* The pairs the instructions from i up to the store at idx add, a later
\* pair overriding an earlier one with the same key.
RECURSIVE OwnPairs(_, _, _, _)
OwnPairs(module_code, i, idx, dict_data) ==
    LET adds == { j \in i..(idx - 1) :
                    /\ At(module_code.co_code, j).op = Opcode.MAP_ADD
                    /\ LiteralPair(module_code.co_code, j) }
    IN  IF adds = {} THEN dict_data
        ELSE OwnPairs(module_code, Min(adds) + 1, idx,
                SetItem(dict_data,
                    At(module_code.co_consts,
                       FullArg(module_code.co_code,
                               Before(module_code.co_code,
                                      Before(module_code.co_code, Min(adds))))),
                    At(module_code.co_consts,
                       FullArg(module_code.co_code,
                               Before(module_code.co_code, Min(adds))))))

\* C26: a requested name whose one store ends a build-empty-mapping /
\* add-pair sequence with literal keys and values only is mapped to the
\* dict of exactly the pairs of that sequence: no pair of a display that
\* was stored earlier under another name is in it.
C26_OnlyOwnPairs ==
    (call = "extract_module_constants" /\ phase = "returned")
    => \A name \in Elems(arg.names) : \A idx \in StoresTo(arg.module_code, name) :
          (/\ StoresTo(arg.module_code, name) = {idx}
           /\ MapDisplayStore(arg.module_code.co_code, idx)
           /\ \A i \in OwnMapAdds(arg.module_code.co_code, idx) :
                 LiteralPair(arg.module_code.co_code, i))
          => /\ name \in DOMAIN ret
             /\ ret[name] =
                  PyDict(OwnPairs(arg.module_code,
                                  OwnBuildMap(arg.module_code.co_code, idx) + 1, idx, << >>))

\* C27: a requested name whose first store ends a map-construction
\* sequence in which some key or value is not a literal-load is left out
\* of the result.
C27_NoPartialMapping ==
    (call = "extract_module_constants" /\ phase = "returned")
    => \A name \in Elems(arg.names) : \A idx \in StoresTo(arg.module_code, name) :
          (/\ \A j \in StoresTo(arg.module_code, name) : idx <= j
           /\ MapDisplayStore(arg.module_code.co_code, idx)
           /\ \E i \in OwnMapAdds(arg.module_code.co_code, idx) :
                 ~LiteralPair(arg.module_code.co_code, i))
          => name \notin DOMAIN ret

-----------------------------------------------------------------------------
(* One call of _try_improve_with_bytecode on the outcome of pycdc, the only
   outcome decompile_file hands to it.  module_code is the module code of
   the artifact the outcome was decompiled from; the call is not given it. *)

RepairArgs ==
    [result : { decompile_with_pycdc(run) : run \in CdcRuns },
     bytecode : Oracles,
     module_code : { Compile(<<AssignX>>), Compile(<<EmptyW>>) }]

InitRepair ==
    /\ NoDirectory
    /\ call = "_try_improve_with_bytecode"
    /\ arg \in RepairArgs
    /\ ret = << >>
    /\ phase = "called"

TryImproveWithBytecode ==
    /\ call = "_try_improve_with_bytecode" /\ phase = "called"
    /\ \E o \in {_try_improve_with_bytecode(arg.result, arg.bytecode)} : ret' = o
    /\ phase' = "returned"
    /\ UNCHANGED <<call, arg>>
    /\ UNCHANGED dirVars

NextRepair == TryImproveWithBytecode

SpecRepair == InitRepair /\ [][NextRepair]_vars

\* The call returned an outcome.
Repaired ==
    call = "_try_improve_with_bytecode" /\ phase = "returned" /\ ~ret.raised

\* The tree of a text: its top-level def is f, its top-level class is C and
\* its other top-level statements bind no name.
TreeOf(text) ==
    LET top == SelectSeq(text, LAMBDA ln : ln.d = 0 /\ ln.k \in {"def", "class", "stmt"})
    IN  [i \in 1..Len(top) |->
           IF top[i].k = "def" THEN Node("FunctionDef", Name("f", 0), << >>, << >>, << >>)
           ELSE IF top[i].k = "class" THEN Node("ClassDef", Name("C", 0), << >>, << >>, << >>)
           ELSE Node("Expr", NoName, << >>, << >>, << >>)]

\* The names Constant Recovery reconstructs a value for.
RecoveredNames(text, module_code) ==
    { name \in find_missing_module_constants(
                   [parses |-> validate_syntax(text), body |-> TreeOf(text)], module_code) :
        TracedValue(module_code, name) # PyNone }

TopLevelStatements(text) ==
    Cardinality({ i \in 1..Len(text) : text[i].d = 0 /\ text[i].k = "stmt" })

\* C18: the text the Repair Pass returns for an outcome it repaired holds,
\* beyond the statements of the text it was given, one binding for every
\* module-level name Constant Recovery reconstructs.
C18_RecoveredConstantsAppended ==
    (Repaired /\ ret.result # arg.result)
    => TopLevelStatements(ret.result.source)
         >= TopLevelStatements(arg.result.source)
            + Cardinality(RecoveredNames(arg.result.source, arg.module_code))

\* C20: the outcome _try_improve_with_bytecode returns reports no more
\* gaps than the outcome it was given.
C20_RepairNeverRaisesTheCount ==
    Repaired => ret.result.incomplete_count <= arg.result.incomplete_count

\* C21: a pass-only class in a text without markers, whose bytecode lists
\* k >= 1 members, is replaced by the Repair Pass with a class stub of
\* exactly k placeholder methods.
C21_SilentClassStubReplaced ==
    (/\ Repaired
     /\ ~HasMarker(arg.result.source)
     /\ PassOnly(arg.result.source, "class") # {}
     /\ "C" \in arg.bytecode.objs
     /\ arg.bytecode.qual
     /\ arg.bytecode.methods >= 1)
    => /\ PassOnly(ret.result.source, "class") = {}
       /\ Cardinality({ i \in 1..Len(ret.result.source) :
                          ret.result.source[i] = L("def", 1) })
            = arg.bytecode.methods * Cardinality(PassOnly(arg.result.source, "class"))

-----------------------------------------------------------------------------
(* One run of a backend that is a process: decompyle3 or pycdc.  The run is
   what run_command returned (stdout, stderr, returncode), with built for
   PYCDC.exists() and unsupported for "Unsupported Python version" in the
   output of decompyle3. *)

BackendTexts ==
    { NoText, <<L("blank", 0)>>, <<stmt0>>, <<bad0>>, <<stmt0, warn0>>,
      <<comment0>>, <<comment0, L("comment", 1)>> }

BackendRuns ==
    [stdout : BackendTexts, stderr : {"", "Traceback"}, code : {0, 1, 0 - 1},
     built : BOOLEAN, unsupported : BOOLEAN]

InitBackend ==
    /\ NoDirectory
    /\ \/ /\ call = "decompile_with_decompyle3"
          /\ arg \in { run \in BackendRuns : run.built }
       \/ /\ call = "decompile_with_pycdc"
          /\ arg \in { run \in BackendRuns : ~run.unsupported }
    /\ ret = << >>
    /\ phase = "called"

DecompileWithDecompyle3 ==
    /\ call = "decompile_with_decompyle3" /\ phase = "called"
    /\ ret' = decompile_with_decompyle3(arg)
    /\ phase' = "returned"
    /\ UNCHANGED <<call, arg>>
    /\ UNCHANGED dirVars

DecompileWithPycdc ==
    /\ call = "decompile_with_pycdc" /\ phase = "called"
    /\ ret' = decompile_with_pycdc(arg)
    /\ phase' = "returned"
    /\ UNCHANGED <<call, arg>>
    /\ UNCHANGED dirVars

NextBackend == DecompileWithDecompyle3 \/ DecompileWithPycdc

SpecBackend == InitBackend /\ [][NextBackend]_vars

\* Every line of the text is blank or a comment.
OnlyComments(text) ==
    \A i \in 1..Len(text) : text[i].k \in {"blank", "comment", "warn"}

\* C19: a backend run that exited with a nonzero code, or printed nothing
\* or only comment lines, yields the failure outcome: no source,
\* MAX_INCOMPLETE gaps and an error.
C19_FailedRunIsFailureOutcome ==
    (/\ call \in {"decompile_with_decompyle3", "decompile_with_pycdc"}
     /\ phase = "returned"
     /\ arg.built
     /\ arg.code # 0 \/ IsBlank(arg.stdout) \/ OnlyComments(arg.stdout))
    => /\ ret.source = NoText
       /\ ret.incomplete_count = MAX_INCOMPLETE
       /\ ret.error # None

-----------------------------------------------------------------------------
(* llm_recovery.call_both_agents.  The run of an agent is what its
   subprocess does: kind "ok" (exit code 0, stdout printed), "nonzero",
   "timeout" (subprocess.TimeoutExpired) or "notfound" (FileNotFoundError).
   A response is the text it carries; the lines of kind "return", "self"
   and "retself" are the statements `return x`, `self.x = y` and
   `return self.x`.  ret holds the state of the call: the two pool threads,
   the number of times each agent was invoked, what each future holds, the
   results dict in insertion order and the value returned. *)

Agents == <<"claude", "opencode">>

\* call_claude, call_opencode: result.stdout if result.returncode == 0 else None.
AgentResponse(run) == IF run.kind = "ok" THEN run.stdout ELSE NoText

\* score_code without the penalty for a short body with pass.
score_code_NoPenalty(code) ==
    LET lines == Cardinality({ i \in 1..Len(code) : code[i].k \notin CommentKinds })
    IN  lines * 10
        + Cardinality({ i \in 1..Len(code) : code[i].k \in {"return", "retself"} }) * 5
        + Cardinality({ i \in 1..Len(code) : code[i].k \in {"self", "retself"} }) * 2

score_code(code) ==
    LET lines == Cardinality({ i \in 1..Len(code) : code[i].k \notin CommentKinds })
        score == lines * 10
                 + Cardinality({ i \in 1..Len(code) : code[i].k \in {"return", "retself"} }) * 5
                 + Cardinality({ i \in 1..Len(code) : code[i].k \in {"self", "retself"} }) * 2
    IN  IF (\E i \in 1..Len(code) : code[i].k \in {"pass", "passtodo"}) /\ lines <= 2
        THEN score - 50 ELSE score

\* The codes dict, in insertion order: the code of every response that has one.
Codes(results) ==
    LET found == SelectSeq(results, LAMBDA r : r.response # NoText
                                               /\ extract_code_from_response(r.response) # NoText)
    IN  [i \in 1..Len(found) |-> extract_code_from_response(found[i].response)]

\* The selection, with a code returned only when both agents gave one.
BestCode_NeedsBoth(codes) ==
    IF Len(codes) < 2 THEN NoText
    ELSE codes[Min({ i \in 1..Len(codes) :
                       \A j \in 1..Len(codes) : score_code(codes[j]) <= score_code(codes[i]) })]

\* max(codes.values(), key=score_code): the first code of maximal score.
BestCode(codes) ==
    IF codes = << >> THEN NoText
    ELSE codes[Min({ i \in 1..Len(codes) :
                       \A j \in 1..Len(codes) : score_code(codes[j]) <= score_code(codes[i]) })]

Repeat(line, n) == [i \in 1..n |-> line]

\* A 2-line pass-only response and a 15-line response with 4 returns.
StubResponse == <<def0, pass1>>
LongResponse == <<def0>> \o Repeat(stmt1, 10) \o Repeat(L("return", 1), 4)

AgentResponses ==
    { NoText, <<bad0>>, <<stmt0>>, StubResponse, LongResponse,
      <<def0, pass1, stmt1>>, <<def0, stmt1, stmt1>>, <<def0, L("retself", 1)>> }

AgentRuns ==
    { [kind |-> "ok", stdout |-> r] : r \in AgentResponses }
    \cup { [kind |-> k, stdout |-> NoText] : k \in {"nonzero", "timeout", "notfound"} }

InitAgents ==
    /\ NoDirectory
    /\ call = "call_both_agents"
    /\ arg \in [claude : AgentRuns, opencode : AgentRuns]
    /\ ret = [thread |-> [a \in {"claude", "opencode"} |-> "queued"],
              calls |-> [a \in {"claude", "opencode"} |-> 0],
              future |-> [a \in {"claude", "opencode"} |-> NoText],
              results |-> << >>,
              code |-> NoText]
    /\ phase = "submitted"

\* A thread of the pool takes the job submitted for the agent.
AgentStart(a) ==
    /\ call = "call_both_agents"
    /\ ret.thread[a] = "queued"
    /\ ret' = [ret EXCEPT !.thread[a] = "running", !.calls[a] = @ + 1]
    /\ UNCHANGED <<call, arg, phase>>
    /\ UNCHANGED dirVars

\* The subprocess of the agent ends, or its timeout expires.
AgentFinish(a) ==
    /\ call = "call_both_agents"
    /\ ret.thread[a] = "running"
    /\ ret' = [ret EXCEPT !.thread[a] = "done", !.future[a] = AgentResponse(arg[a])]
    /\ UNCHANGED <<call, arg, phase>>
    /\ UNCHANGED dirVars

\* future.result() of the next agent in the order claude, opencode.
CollectResult ==
    /\ call = "call_both_agents" /\ phase = "submitted"
    /\ Len(ret.results) < Len(Agents)
    /\ LET a == Agents[Len(ret.results) + 1] IN
       /\ ret.thread[a] = "done"
       /\ ret' = [ret EXCEPT !.results = Append(@, [name |-> a, response |-> ret.future[a]])]
    /\ UNCHANGED <<call, arg, phase>>
    /\ UNCHANGED dirVars

\* The executor is shut down and the best code is returned.
SelectBest ==
    /\ call = "call_both_agents" /\ phase = "submitted"
    /\ Len(ret.results) = Len(Agents)
    /\ ret' = [ret EXCEPT !.code = BestCode(Codes(ret.results))]
    /\ phase' = "returned"
    /\ UNCHANGED <<call, arg>>
    /\ UNCHANGED dirVars

NextAgents ==
    \/ \E a \in {"claude", "opencode"} : AgentStart(a) \/ AgentFinish(a)
    \/ CollectResult
    \/ SelectBest

SpecAgents == InitAgents /\ [][NextAgents]_vars

\* The code an agent's run is accepted with, NoText if it is rejected.
Accepted(run) ==
    IF run.kind = "ok" THEN extract_code_from_response(run.stdout) ELSE NoText

BothReturned == call = "call_both_agents" /\ phase = "returned"

\* The score as the specification words it.
Rated(code) ==
    LET n == Cardinality({ i \in 1..Len(code) : code[i].k \notin {"blank", "comment", "warn"} })
        r == Cardinality({ i \in 1..Len(code) : code[i].k \in {"return", "retself"} })
        s == Cardinality({ i \in 1..Len(code) : code[i].k \in {"self", "retself"} })
        p == \E i \in 1..Len(code) : code[i].k \in {"pass", "passtodo"}
    IN  10 * n + 5 * r + 2 * s - (IF p /\ n <= 2 THEN 50 ELSE 0)

\* C22: with both agents accepted, the code returned is one of the two,
\* its score is maximal, claude's code wins on equal scores, and the
\* 15-line response with 4 returns wins over the 2-line pass-only one.
C22_BestScoreFirstWins ==
    (BothReturned /\ Accepted(arg.claude) # NoText /\ Accepted(arg.opencode) # NoText)
    => /\ ret.code \in {Accepted(arg.claude), Accepted(arg.opencode)}
       /\ Rated(ret.code) >= Rated(Accepted(arg.claude))
       /\ Rated(ret.code) >= Rated(Accepted(arg.opencode))
       /\ Rated(Accepted(arg.claude)) = Rated(Accepted(arg.opencode))
            => ret.code = Accepted(arg.claude)
       /\ {arg.claude.stdout, arg.opencode.stdout} = {StubResponse, LongResponse}
            => ret.code = LongResponse

\* C22 witness: claude answered the 2-line stub, opencode the 15-line
\* response, and the 15-line response was returned.
C22_Witness ==
    /\ BothReturned
    /\ arg.claude = [kind |-> "ok", stdout |-> StubResponse]
    /\ arg.opencode = [kind |-> "ok", stdout |-> LongResponse]
    /\ ret.code = LongResponse

\* C23: each agent is invoked at most once; an agent that timed out,
\* failed or returned nothing is rejected and the accepted code of the
\* other agent is returned.
C23_OnceEachOtherStillReturned ==
    /\ call = "call_both_agents" => \A a \in {"claude", "opencode"} : ret.calls[a] <= 1
    /\ BothReturned =>
         /\ \A a \in {"claude", "opencode"} : ret.calls[a] = 1
         /\ (Accepted(arg.claude) = NoText /\ Accepted(arg.opencode) # NoText)
              => ret.code = Accepted(arg.opencode)
         /\ (Accepted(arg.opencode) = NoText /\ Accepted(arg.claude) # NoText)
              => ret.code = Accepted(arg.claude)

\* C23 witness: claude timed out, opencode was accepted and its code was
\* returned, each agent invoked once.
C23_Witness ==
    /\ BothReturned
    /\ arg.claude.kind = "timeout"
    /\ Accepted(arg.opencode) # NoText
    /\ ret.code = Accepted(arg.opencode)
    /\ ret.calls = [a \in {"claude", "opencode"} |-> 1]

-----------------------------------------------------------------------------
(* Properties of one call of decompile_file.                               *)

Stages == [i \in 1..Len(ret.trace) |-> ret.trace[i].stage]

\* The outcomes the stages of the call gave.
Outcomes == { ret.trace[i].result : i \in {j \in 1..Len(ret.trace) : ~ret.trace[j].raised} }

FileReturned == call = "decompile_file" /\ phase = "returned"

StageRank(name) ==
    CASE name = "decompyle3" -> 1
      [] name = "pycdc" -> 2
      [] name = "repair" -> 3
      [] name = "llm" -> 4
      [] name = "pylingual" -> 5

\* C2: every outcome that is complete, from a backend, from the Repair
\* Pass or from the LLM Recovery Pass, and every outcome decompile_file
\* returns as complete, has a source that parses.
C2_CompleteOutcomesParse ==
    FileReturned =>
        /\ \A r \in Outcomes : is_complete(r) => validate_syntax(r.source)
        /\ (~ret.raised /\ is_complete(ret.result)) => validate_syntax(ret.result.source)

\* C3: no outcome a stage reports complete has an incompleteness marker
\* left in its text: the Repair Pass and the LLM Recovery Pass count the
\* markers that remain in the text they build.
C3_CompleteOutcomesHaveNoMarker ==
    FileReturned =>
        \A r \in Outcomes : is_complete(r) => ~HasMarker(r.source)

C7_FixedOrderFirstCompleteReturned ==
    FileReturned =>
        /\ Stages[1] = "decompyle3"
        /\ Len(Stages) >= 2 => Stages[2] = "pycdc"
        /\ \A i, j \in 1..Len(Stages) :
             i < j => StageRank(Stages[i]) < StageRank(Stages[j])
        /\ \A i \in 1..Len(ret.trace) :
             (~ret.trace[i].raised /\ is_complete(ret.trace[i].result))
                => /\ i = Len(ret.trace)
                   /\ ~ret.raised
                   /\ ret.result = ret.trace[i].result

\* C7 witness: the Repair Pass gave a complete outcome and the call
\* returned it, with LLM recovery enabled and pylingual installed.
C7_Witness ==
    /\ FileReturned
    /\ LlmEnabled(arg.env)
    /\ arg.inp.pyl.installed
    /\ Stages = <<"decompyle3", "pycdc", "repair">>
    /\ ~ret.raised
    /\ is_complete(ret.result)

\* The stage that follows a non-empty outcome that is not complete, from a
\* backend of the set given: the Repair Pass and, where that returns an
\* outcome that is not complete and LLM recovery is enabled, the LLM
\* Recovery Pass on it.
RepairedThenRecovered(backends) ==
    \A i \in 1..Len(ret.trace) :
        (/\ Stages[i] \in backends
         /\ ret.trace[i].result.source # NoText
         /\ ~is_complete(ret.trace[i].result))
        => /\ i < Len(Stages)
           /\ Stages[i + 1] = "repair"
           /\ (/\ ~ret.trace[i + 1].raised
               /\ ~is_complete(ret.trace[i + 1].result)
               /\ LlmEnabled(arg.env))
              => (i + 1 < Len(Stages) /\ Stages[i + 2] = "llm")

\* C8 as stated: the outcome of every backend, pycdc and pylingual alike,
\* that is non-empty and not complete goes through the Repair Pass and
\* then, if LLM recovery is enabled, through the LLM Recovery Pass.
C8_EveryBackendRepaired ==
    FileReturned => RepairedThenRecovered({"pycdc", "pylingual"})

\* C8 amended: only the outcome of pycdc goes through the Repair Pass
\* and, where the Repair Pass returns an outcome that is not complete and
\* LLM recovery is enabled, through the LLM Recovery Pass; a complete
\* outcome of either pass is returned at once; the outcome of pylingual
\* goes through neither.
C8_OnlyPycdcRepaired ==
    FileReturned =>
        /\ RepairedThenRecovered({"pycdc"})
        /\ \A i \in 1..Len(ret.trace) :
             (/\ Stages[i] \in {"repair", "llm"}
              /\ ~ret.trace[i].raised
              /\ is_complete(ret.trace[i].result))
             => (i = Len(Stages) /\ ~ret.raised /\ ret.result = ret.trace[i].result)
        /\ \A i \in 1..Len(ret.trace) : Stages[i] = "pylingual" => i = Len(Stages)

\* C8 witness: pycdc's outcome went through both passes, and pylingual
\* then gave a non-empty outcome that is not complete.
C8_Witness ==
    /\ FileReturned
    /\ Stages = <<"decompyle3", "pycdc", "repair", "llm", "pylingual">>
    /\ ret.trace[5].result.source # NoText
    /\ ~is_complete(ret.trace[5].result)

\* C9: where no outcome is complete and some candidate is non-empty, the
\* returned outcome has the least incomplete_count of all the non-empty
\* candidates, those of the two passes included.
C9_LeastIncompleteReturned ==
    (/\ FileReturned
     /\ ~ret.raised
     /\ \A r \in Outcomes : ~is_complete(r)
     /\ \E r \in Outcomes : r.source # NoText)
    => \A r \in Outcomes :
          r.source # NoText => ret.result.incomplete_count <= r.incomplete_count

\* C28: an outcome decompile_file returns as complete holds no pass-only
\* class without a marker that the disassembly shows to have members (the
\* class count_false_passes counts): the cross-check against the bytecode
\* comes before an outcome is accepted as complete.
C28_CompleteHasNoSilentStub ==
    (FileReturned /\ ~ret.raised /\ is_complete(ret.result))
    => ~(arg.inp.bc.qual /\ PassOnly(ret.result.source, "class") # {})

-----------------------------------------------------------------------------
(* decompile_directory: a pool of workers runs process_file on every       *)
(* discovered artifact while the calling thread takes the futures as they  *)
(* complete and aggregates them.                                           *)

NumArtifacts == 2
MaxWorkers == 2

Artifacts == 1..NumArtifacts

\* What the collaborators answer for the artifacts of a directory.
DirInputs ==
    LET ok == D3Run(<<stmt0>>, "", 0, FALSE)
        unparsable == D3Run(<<bad0>>, "", 0, FALSE)
        crash == D3Run(NoText, "Traceback", 1, FALSE)
        nocdc == CdcRun(TRUE, NoText, "Error")
        nopyl == PylRun(FALSE, "", NoText)
        listing == Oracle(TRUE, {"f"}, FALSE, 0)
    IN { FileInput(ok, nocdc, nopyl, EmptyOracle, NoReplies),
         FileInput(D3Run(<<comment0>>, "", 0, FALSE), CdcRun(FALSE, NoText, ""),
                   PylRun(TRUE, "model failed", NoText), EmptyOracle, NoReplies),
         FileInput(D3Run(NoText, "", 1, TRUE), nocdc, PylRun(TRUE, "", NoText),
                   EmptyOracle, NoReplies),
         FileInput(unparsable, nocdc, nopyl, EmptyOracle, NoReplies),
         FileInput(crash, nocdc, nopyl, EmptyOracle, NoReplies),
         FileInput(crash, nocdc, nopyl, listing, NoReplies),
         FileInput(crash, CdcRun(TRUE, <<stmt0, warn0>>, ""), nopyl, EmptyOracle, NoReplies),
         FileInput(crash, CdcRun(TRUE, <<def0, pass1, warn1>>, ""), nopyl, listing, NoReplies),
         FileInput(crash, CdcRun(TRUE, <<def0, pass1, stmt0, warn0>>, ""), nopyl, listing,
                   NoReplies) }

NoOutcome == [raised |-> FALSE, result |-> NoResult, written |-> NoText]

Init ==
    /\ status = [a \in Artifacts |-> "queued"]
    /\ outcome = [a \in Artifacts |-> NoOutcome]
    /\ given = [a \in Artifacts |-> FileInput(<< >>, << >>, << >>, EmptyOracle, NoReplies)]
    /\ yielded = {}
    /\ mark = [a \in Artifacts |-> ""]
    /\ stats = ZeroStats
    /\ pc = "loop"
    /\ env \in {LlmOn, [use_llm |-> FALSE, has_llm |-> TRUE]}
    /\ NoCall

Finished(a) == status[a] \in {"done", "raised"}

\* A worker thread of the pool takes the next submitted artifact.
WorkerStart(a) ==
    /\ pc \in {"loop", "unwind"}
    /\ status[a] = "queued"
    /\ Cardinality({b \in Artifacts : status[b] = "running"}) < MaxWorkers
    /\ status' = [status EXCEPT ![a] = "running"]
    /\ UNCHANGED <<outcome, given, yielded, mark, stats, pc, env>>
    /\ UNCHANGED callVars

\* The worker runs process_file to its end: the future holds what it
\* returned, or the exception that left it.
WorkerFinish(a) ==
    /\ status[a] = "running"
    /\ \E inp \in DirInputs :
       \E o \in {process_file(inp, env)} :
         /\ status' = [status EXCEPT ![a] = IF o.raised THEN "raised" ELSE "done"]
         /\ outcome' = [outcome EXCEPT ![a] = o]
         /\ given' = [given EXCEPT ![a] = inp]
    /\ UNCHANGED <<yielded, mark, stats, pc, env>>
    /\ UNCHANGED callVars

\* Count without the branch that counts a failed outcome.
Count_FailedLost(st, result) ==
    LET counted == [st EXCEPT
                      !.total = @ + 1,
                      !.by_tool = IF result.tool \in DOMAIN @
                                  THEN [@ EXCEPT ![result.tool] = @ + 1]
                                  ELSE @ @@ (result.tool :> 1)]
    IN IF is_complete(result) THEN [counted EXCEPT !.complete = @ + 1]
       ELSE IF result.error # None /\ result.error # "" THEN counted
       ELSE [counted EXCEPT !.incomplete = @ + 1]

\* with stats_lock: the body of the loop for a future that holds a result.
Count(st, result) ==
    LET counted == [st EXCEPT
                      !.total = @ + 1,
                      !.by_tool = IF result.tool \in DOMAIN @
                                  THEN [@ EXCEPT ![result.tool] = @ + 1]
                                  ELSE @ @@ (result.tool :> 1)]
    IN IF is_complete(result) THEN [counted EXCEPT !.complete = @ + 1]
       ELSE IF result.error # None /\ result.error # ""
       THEN [counted EXCEPT !.failed = @ + 1]
       ELSE [counted EXCEPT !.incomplete = @ + 1]

StatusSymbol(result) ==
    IF is_complete(result) THEN "+"
    ELSE IF result.error # None /\ result.error # "" THEN "x"
    ELSE "~"

\* One turn of "for future in as_completed(futures)": future.result()
\* returns the outcome or raises the worker's exception again, which
\* leaves the loop.
Aggregate(a) ==
    /\ pc = "loop"
    /\ Finished(a)
    /\ a \notin yielded
    /\ yielded' = yielded \cup {a}
    /\ IF status[a] = "raised"
       THEN /\ pc' = "unwind"
            /\ UNCHANGED <<stats, mark>>
       ELSE /\ stats' = Count(stats, outcome[a].result)
            /\ mark' = [mark EXCEPT ![a] = StatusSymbol(outcome[a].result)]
            /\ pc' = pc
    /\ UNCHANGED <<status, outcome, given, env>>
    /\ UNCHANGED callVars

\* The loop is over: the with block ends and stats is returned.
ReturnStats ==
    /\ pc = "loop"
    /\ yielded = Artifacts
    /\ pc' = "returned"
    /\ UNCHANGED <<status, outcome, given, yielded, mark, stats, env>>
    /\ UNCHANGED callVars

\* An exception is leaving the with block: the executor's __exit__ waits
\* for every submitted future, then the exception leaves
\* decompile_directory.
Propagate ==
    /\ pc = "unwind"
    /\ \A a \in Artifacts : Finished(a)
    /\ pc' = "raised"
    /\ UNCHANGED <<status, outcome, given, yielded, mark, stats, env>>
    /\ UNCHANGED callVars

Next ==
    \/ \E a \in Artifacts : WorkerStart(a)
    \/ \E a \in Artifacts : WorkerFinish(a)
    \/ \E a \in Artifacts : Aggregate(a)
    \/ ReturnStats
    \/ Propagate

Spec == Init /\ [][Next]_vars

\* The pool's threads run, and the calling thread goes on, as long as they can.
FairSpec == Spec /\ WF_vars(Next)

-----------------------------------------------------------------------------
(* Properties of a run of decompile_directory.                             *)

\* C1: an exception raised while an artifact is processed is turned into
\* a failed outcome: it never leaves decompile_directory, the artifact is
\* counted as failed, and once the run is over every other artifact has
\* been aggregated.
C1_ExceptionsContained ==
    /\ pc # "raised"
    /\ \A a \in DOMAIN status :
         (status[a] = "raised" /\ a \in yielded) => mark[a] = "x"
    /\ pc = "returned" => \A a \in DOMAIN status : mark[a] # ""

Counters == {"complete", "incomplete", "failed"}

\* C5: complete + incomplete + failed = total in every state, and every
\* result the loop aggregates adds one to total and to exactly one of the
\* three counters.
C5_CountersPartitionTotal ==
    /\ [](stats.complete + stats.incomplete + stats.failed = stats.total)
    /\ [][(\E a \in DOMAIN status :
               a \in yielded' \ yielded /\ status[a] = "done")
           => /\ stats'.total = stats.total + 1
              /\ \E k \in Counters :
                   /\ stats'[k] = stats[k] + 1
                   /\ \A o \in Counters \ {k} : stats'[o] = stats[o]]_vars

\* C5 witness: the loop has aggregated an incomplete and a failed result.
C5_Witness ==
    /\ pc = "loop"
    /\ stats.total = stats.incomplete + stats.failed
    /\ stats.incomplete >= 1
    /\ stats.failed >= 1

\* C6: every run ends, returning stats with total equal to the number of
\* artifacts discovered, each of them processed and counted once.
C6_RunEndsWithEveryArtifactCounted ==
    <>(/\ pc = "returned"
       /\ stats.total = NumArtifacts
       /\ \A a \in Artifacts : status[a] = "done" /\ a \in yielded)

\* Every backend gave an empty output for the artifact.
AllEmpty(inp) ==
    /\ decompile_with_decompyle3(inp.d3).source = NoText
    /\ decompile_with_pycdc(inp.cdc).source = NoText
    /\ decompile_with_pylingual(inp.pyl).source = NoText

\* C10: where every backend gave an empty output and the oracle is empty,
\* no exception leaves the pipeline: the outcome is the marker document
\* with tool "none", the maximal gap count and an error, and the loop
\* counts the artifact as failed.
C10_AllEmptyIsFailedDocument ==
    \A a \in DOMAIN status :
        (Finished(a) /\ AllEmpty(given[a]) /\ ~given[a].bc.nonempty)
        => /\ status[a] = "done"
           /\ outcome[a].result =
                  DecompileResult(FailedDocument, <<"none">>, MAX_INCOMPLETE, "All tools failed")
           /\ outcome[a].written = FailedDocument
           /\ a \in yielded => (mark[a] = "x" /\ stats.failed >= 1)

\* C10 witness: the loop has aggregated an artifact for which every
\* backend gave an empty output, the oracle being empty.
C10_Witness ==
    \E a \in DOMAIN status :
        /\ Finished(a)
        /\ AllEmpty(given[a])
        /\ ~given[a].bc.nonempty
        /\ a \in yielded
        /\ mark[a] = "x"

-----------------------------------------------------------------------------
(* The output paths of decompile_directory: which worker writes which     *)
(* file. A file name is the sequence of its characters, a path the        *)
(* sequence of its components.                                            *)

Dot == "."

\* str.rfind('.') counted from 1: 0 where the name holds no dot.
LastDot(name) ==
    LET dots == {i \in 1..Len(name) : name[i] = Dot}
    IN IF dots = {} THEN 0 ELSE CHOOSE i \in dots : \A j \in dots : j <= i

\* PurePath.suffix: a leading dot, or a trailing one, starts no suffix.
suffix(name) ==
    LET i == LastDot(name)
    IN IF 1 < i /\ i < Len(name) THEN SubSeq(name, i, Len(name)) ELSE << >>

\* rel_path.with_suffix(new): the old suffix of the last component is
\* replaced, and a name without a suffix gets the new one appended.
with_suffix(path, new) ==
    LET name == path[Len(path)]
        old == suffix(name)
    IN [path EXCEPT ![Len(path)] = SubSeq(name, 1, Len(name) - Len(old)) \o new]

PySuffix == <<Dot, "p", "y">>
PycSuffix == <<Dot, "p", "y", "c">>

\* fnmatch of a name against "*.pyc".
MatchesPyc(name) ==
    /\ Len(name) >= Len(PycSuffix)
    /\ SubSeq(name, Len(name) - Len(PycSuffix) + 1, Len(name)) = PycSuffix

\* source_dir.rglob("*.pyc") over the files of a tree, as relative paths.
rglob(tree) == {p \in tree : MatchesPyc(p[Len(p)])}

\* output_path of process_file, relative to output_dir.
output_path(rel_path) == with_suffix(rel_path, PySuffix)

\* The files a source tree may hold.
TreeFiles ==
    { <<PycSuffix>>,
      <<PycSuffix \o PycSuffix>>,
      <<<<"a">> \o PycSuffix>>,
      <<<<"a", Dot, "b">> \o PycSuffix>>,
      <<<<"a">>, <<"a">> \o PycSuffix>>,
      <<<<"a">> \o PySuffix>> }

MaxTree == 3

SourceDirs == {tree \in SUBSET TreeFiles : Cardinality(tree) \in 1..MaxTree}

\* The output directory is new (rmtree, mkdir) and every artifact found
\* is submitted to the pool.
InitPaths ==
    /\ \E tree \in SourceDirs :
         /\ given = tree
         /\ status = [p \in rglob(tree) |-> "queued"]
    /\ outcome = [f \in {output_path(p) : p \in rglob(given)} |-> << >>]
    /\ yielded = {}
    /\ mark = << >>
    /\ stats = ZeroStats
    /\ pc = "paths"
    /\ env = [use_llm |-> FALSE, has_llm |-> FALSE]
    /\ NoCall

\* A worker thread takes an artifact and runs process_file up to the
\* return of decompile_file, which may raise.
PathStart(p) ==
    /\ status[p] = "queued"
    /\ Cardinality({q \in DOMAIN status : status[q] \in {"running", "writing"}}) < MaxWorkers
    /\ \E inp \in DirInputs :
         status' = [status EXCEPT ![p] =
                       IF process_file(inp, env).raised THEN "raised" ELSE "running"]
    /\ UNCHANGED <<outcome, given, yielded, mark, stats, pc, env>>
    /\ UNCHANGED callVars

\* output_path.write_text(result.source): the file records its writer.
PathWrite(p) ==
    /\ status[p] = "running"
    /\ status' = [status EXCEPT ![p] = "writing"]
    /\ outcome' = [outcome EXCEPT ![output_path(p)] = Append(@, p)]
    /\ UNCHANGED <<given, yielded, mark, stats, pc, env>>
    /\ UNCHANGED callVars

\* format_with_ruff, where it runs, and the return of process_file.
PathDone(p) ==
    /\ status[p] = "writing"
    /\ status' = [status EXCEPT ![p] = "done"]
    /\ UNCHANGED <<outcome, given, yielded, mark, stats, pc, env>>
    /\ UNCHANGED callVars

NextPaths ==
    \/ \E p \in DOMAIN status : PathStart(p)
    \/ \E p \in DOMAIN status : PathWrite(p)
    \/ \E p \in DOMAIN status : PathDone(p)

SpecPaths == InitPaths /\ [][NextPaths]_vars

\* C25: distinct discovered artifacts have distinct output paths, no two
\* workers that are running at once write the same output path, no output
\* path is written twice, and once every worker is over each output path
\* has been written exactly once, by the worker of its artifact.
C25_OneWriterPerOutputPath ==
    /\ \A p, q \in DOMAIN status : p # q => output_path(p) # output_path(q)
    /\ \A p, q \in DOMAIN status :
         (p # q /\ status[p] \in {"running", "writing"}
                /\ status[q] \in {"running", "writing"})
         => output_path(p) # output_path(q)
    /\ \A f \in DOMAIN outcome : Len(outcome[f]) <= 1
    /\ (\A p \in DOMAIN status : status[p] \in {"done", "raised"})
       => \A p \in DOMAIN status : outcome[output_path(p)] = <<p>>

-----------------------------------------------------------------------------
(* fill_incomplete_sections, and _try_improve_with_bytecode, called once   *)
(* and then again on what the first call returned.                         *)

InitFill ==
    /\ NoDirectory
    /\ \/ /\ call = "fill_incomplete_sections"
          /\ arg \in [source : CdcTexts, bytecode : Oracles]
       \/ /\ call = "_try_improve_with_bytecode"
          /\ arg \in [result : { decompile_with_pycdc(run) : run \in CdcRuns },
                      bytecode : Oracles]
    /\ ret = << >>
    /\ phase = "called"

FillIncompleteSections ==
    /\ call = "fill_incomplete_sections" /\ phase = "called"
    /\ ret' = <<fill_incomplete_sections(arg.source, arg.bytecode)>>
    /\ phase' = "returned"
    /\ UNCHANGED <<call, arg>>
    /\ UNCHANGED dirVars

FillAgain ==
    /\ call = "fill_incomplete_sections" /\ phase = "returned"
    /\ ret' = Append(ret, fill_incomplete_sections(ret[1], arg.bytecode))
    /\ phase' = "again"
    /\ UNCHANGED <<call, arg>>
    /\ UNCHANGED dirVars

ImproveOnce ==
    /\ call = "_try_improve_with_bytecode" /\ phase = "called"
    /\ \E o \in {_try_improve_with_bytecode(arg.result, arg.bytecode)} : ret' = <<o>>
    /\ phase' = "returned"
    /\ UNCHANGED <<call, arg>>
    /\ UNCHANGED dirVars

\* The outcome the first call returned is handed to the second.
ImproveAgain ==
    /\ call = "_try_improve_with_bytecode" /\ phase = "returned"
    /\ ~ret[1].raised
    /\ \E o \in {_try_improve_with_bytecode(ret[1].result, arg.bytecode)} :
         ret' = Append(ret, o)
    /\ phase' = "again"
    /\ UNCHANGED <<call, arg>>
    /\ UNCHANGED dirVars

NextFill == FillIncompleteSections \/ FillAgain \/ ImproveOnce \/ ImproveAgain

SpecFill == InitFill /\ [][NextFill]_vars

\* The marker of the item whose header is line i: the first marker below
\* the header that lies within the item's block; 0 if the block has none.
OwnMarker(lines, i) ==
    LET own == { j \in (i + 1)..Len(lines) :
                   /\ lines[j].k = "warn"
                   /\ \A m \in (i + 1)..j : lines[m].d > lines[i].d }
    IN  IF own = {} THEN 0 ELSE Min(own)

\* The lines outside the header-to-marker range of every incomplete item.
Outside(lines) ==
    LET inside == { m \in 1..Len(lines) :
                      \E i \in 1..m : /\ lines[i].k \in HeaderKinds
                                      /\ OwnMarker(lines, i) >= m }
        kept == SelectSeq([m \in 1..Len(lines) |-> m], LAMBDA m : m \notin inside)
    IN  [n \in 1..Len(kept) |-> lines[kept[n]]]

\* The lines of a occur in b, in the order of a.
RECURSIVE IsSubseq(_, _)
IsSubseq(a, b) ==
    IF a = << >> THEN TRUE
    ELSE IF b = << >> THEN FALSE
    ELSE IF Head(a) = Head(b) THEN IsSubseq(Tail(a), Tail(b))
    ELSE IsSubseq(a, Tail(b))

\* C29: every line outside the header-to-marker range of an incomplete
\* item, the lines of a complete def or class among them, is in the text
\* fill_incomplete_sections returns, in the order of the source.
C29_OnlyIncompleteItemsChange ==
    (call = "fill_incomplete_sections" /\ phase \in {"returned", "again"})
    => IsSubseq(Outside(arg.source), ret[1])

\* C30: fill_incomplete_sections applied to its own result returns that
\* result, and so does _try_improve_with_bytecode.
C30_RepairIsIdempotent ==
    (call \in {"fill_incomplete_sections", "_try_improve_with_bytecode"} /\ phase = "again")
    => ret[2] = ret[1]

====
